---- MODULE Spec2Model ----
(***************************************************************************)
(* Model of the redirecterrors middleware (src/redirecterrors.go).         *)
(*                                                                         *)
(* Strings are sequences of one-character strings, so that splitting,      *)
(* decimal conversion, placeholder replacement, query escaping, header     *)
(* canonicalisation and pattern matching are computed character by         *)
(* character, as the Go code and the library functions it calls do.        *)
(***************************************************************************)
EXTENDS Integers, Sequences, FiniteSets, TLC

(***************************************************************************)
(* Bounds of the model.                                                    *)
(***************************************************************************)
\* number of calls the downstream handler makes on the catcher per request
MaxOps == 3

(***************************************************************************)
(* Characters and elementary string functions.                             *)
(***************************************************************************)
DigitChars == <<"0", "1", "2", "3", "4", "5", "6", "7", "8", "9">>

DigitSet == {DigitChars[i] : i \in 1..10}

DigitValOf == [c \in DigitSet |-> (CHOOSE i \in 1..10 : DigitChars[i] = c) - 1]

IsDigit(c) == c \in DigitSet

DigitVal(c) == DigitValOf[c]

\* s has prefix p at position i (1-based)
HasPrefixAt(s, i, p) ==
    /\ i + Len(p) - 1 <= Len(s)
    /\ \A k \in 1..Len(p) : s[i + k - 1] = p[k]

\* strings.Contains
StrContains(s, p) == \E i \in 1..(Len(s) + 1) : HasPrefixAt(s, i, p)

RECURSIVE SplitFrom(_, _, _, _)
\* strings.Split(s, sep) for a one-character separator, scanning from i
\* with cur the part collected so far
SplitFrom(s, sep, i, cur) ==
    IF i > Len(s) THEN <<cur>>
    ELSE IF s[i] = sep THEN <<cur>> \o SplitFrom(s, sep, i + 1, <<>>)
    ELSE SplitFrom(s, sep, i + 1, Append(cur, s[i]))

Split(s, sep) == SplitFrom(s, sep, 1, <<>>)

RECURSIVE DigitsVal(_, _)
\* value of a digit string, most significant digit first
DigitsVal(s, acc) ==
    IF s = <<>> THEN acc ELSE DigitsVal(Tail(s), acc * 10 + DigitVal(Head(s)))

\* strconv.Atoi: optional sign, then one or more decimal digits
AtoiBody(s) == IF s # <<>> /\ s[1] \in {"+", "-"} THEN Tail(s) ELSE s

AtoiOk(s) ==
    /\ AtoiBody(s) # <<>>
    /\ \A i \in 1..Len(AtoiBody(s)) : IsDigit(AtoiBody(s)[i])

AtoiVal(s) ==
    IF s # <<>> /\ s[1] = "-" THEN 0 - DigitsVal(AtoiBody(s), 0)
    ELSE DigitsVal(AtoiBody(s), 0)

RECURSIVE ItoaNat(_)
ItoaNat(n) ==
    IF n < 10 THEN <<DigitChars[n + 1]>>
    ELSE Append(ItoaNat(n \div 10), DigitChars[(n % 10) + 1])

\* strconv.Itoa
Itoa(n) == IF n < 0 THEN <<"-">> \o ItoaNat(0 - n) ELSE ItoaNat(n)

RECURSIVE ReplaceFrom(_, _, _, _)
\* strings.ReplaceAll(s, old, new) for non-empty old: leftmost,
\* non-overlapping occurrences, scanning from position i
ReplaceFrom(s, old, new, i) ==
    IF i > Len(s) THEN <<>>
    ELSE IF HasPrefixAt(s, i, old)
         THEN new \o ReplaceFrom(s, old, new, i + Len(old))
         ELSE <<s[i]>> \o ReplaceFrom(s, old, new, i + 1)

ReplaceAll(s, old, new) == ReplaceFrom(s, old, new, 1)

(***************************************************************************)
(* url.QueryEscape, url.URL.String and url.URL.RequestURI                  *)
(***************************************************************************)
LowerChars == <<"a", "b", "c", "d", "e", "f", "g", "h", "i", "j", "k", "l", "m",
                "n", "o", "p", "q", "r", "s", "t", "u", "v", "w", "x", "y", "z">>

UpperChars == <<"A", "B", "C", "D", "E", "F", "G", "H", "I", "J", "K", "L", "M",
                "N", "O", "P", "Q", "R", "S", "T", "U", "V", "W", "X", "Y", "Z">>

LowerSet == {LowerChars[i] : i \in 1..26}

UpperSet == {UpperChars[i] : i \in 1..26}

UpperOf == [c \in LowerSet |-> UpperChars[CHOOSE i \in 1..26 : LowerChars[i] = c]]

LowerOf == [c \in UpperSet |-> LowerChars[CHOOSE i \in 1..26 : UpperChars[i] = c]]

IsLower(c) == c \in LowerSet

IsUpper(c) == c \in UpperSet

ToUpper(c) == IF IsLower(c) THEN UpperOf[c] ELSE c

ToLower(c) == IF IsUpper(c) THEN LowerOf[c] ELSE c

\* characters url.QueryEscape leaves alone
IsUnreserved(c) == IsLower(c) \/ IsUpper(c) \/ IsDigit(c) \/ c \in {"-", "_", ".", "~"}

\* the two hexadecimal digits of the characters the model escapes
HexOf(c) ==
    CASE c = ":" -> <<"3", "A">>
      [] c = "/" -> <<"2", "F">>
      [] c = "?" -> <<"3", "F">>
      [] c = "=" -> <<"3", "D">>
      [] c = "&" -> <<"2", "6">>
      [] c = "{" -> <<"7", "B">>
      [] c = "}" -> <<"7", "D">>
      [] c = "%" -> <<"2", "5">>
      [] c = "+" -> <<"2", "B">>
      [] c = ";" -> <<"3", "B">>
      [] OTHER   -> <<"0", "0">>

EscapeChar(c) ==
    IF IsUnreserved(c) THEN <<c>>
    ELSE IF c = " " THEN <<"+">>
    ELSE <<"%">> \o HexOf(c)

RECURSIVE QueryEscape(_)
QueryEscape(s) == IF s = <<>> THEN <<>> ELSE EscapeChar(Head(s)) \o QueryEscape(Tail(s))

\* url.URL.String for a URL without opaque part, user info or fragment,
\* whose path needs no escaping
URLString(u) ==
    LET scheme == IF u.Scheme # <<>> THEN u.Scheme \o <<":">> ELSE <<>>
        auth   == IF u.Scheme # <<>> \/ u.Host # <<>>
                  THEN (IF u.Host # <<>> \/ u.Path # <<>> THEN <<"/", "/">> ELSE <<>>)
                       \o u.Host
                  ELSE <<>>
        slash  == IF u.Path # <<>> /\ u.Path[1] # "/" /\ u.Host # <<>>
                  THEN <<"/">> ELSE <<>>
        query  == IF u.RawQuery # <<>> THEN <<"?">> \o u.RawQuery ELSE <<>>
    IN  scheme \o auth \o slash \o u.Path \o query

\* url.URL.RequestURI: the path, "/" when the path is empty, and the query
RequestURI(u) ==
    (IF u.Path = <<>> THEN <<"/">> ELSE u.Path)
    \o (IF u.RawQuery # <<>> THEN <<"?">> \o u.RawQuery ELSE <<>>)

(***************************************************************************)
(* http.Header: a map from canonical key to the list of its values.        *)
(***************************************************************************)
RECURSIVE CanonicalFrom(_, _, _)
\* textproto.CanonicalMIMEHeaderKey: the first letter and every letter
\* after a hyphen in upper case, every other letter in lower case
CanonicalFrom(s, i, upper) ==
    IF i > Len(s) THEN <<>>
    ELSE <<IF upper THEN ToUpper(s[i]) ELSE ToLower(s[i])>>
         \o CanonicalFrom(s, i + 1, s[i] = "-")

CanonicalKey(s) == CanonicalFrom(s, 1, TRUE)

EmptyHeader == [k \in {} |-> <<>>]

\* http.Header.Get
HeaderGet(h, key) ==
    LET k == CanonicalKey(key)
    IN  IF k \in DOMAIN h /\ h[k] # <<>> THEN h[k][1] ELSE <<>>

\* http.Header.Set
HeaderSet(h, key, value) ==
    LET k == CanonicalKey(key)
    IN  [x \in DOMAIN h \cup {k} |-> IF x = k THEN <<value>> ELSE h[x]]

\* http.Header.Add
HeaderAdd(h, key, value) ==
    LET k == CanonicalKey(key)
    IN  [x \in DOMAIN h \cup {k} |->
            IF x = k THEN (IF k \in DOMAIN h THEN Append(h[k], value) ELSE <<value>>)
            ELSE h[x]]

\* http.Header.Del
HeaderDel(h, key) == [x \in DOMAIN h \ {CanonicalKey(key)} |-> h[x]]

RECURSIVE AddValues(_, _, _)
AddValues(h, key, values) ==
    IF values = <<>> THEN h
    ELSE AddValues(HeaderAdd(h, key, Head(values)), key, Tail(values))

RECURSIVE CopyHeaderKeys(_, _, _)
\* for key, values := range src { for _, value := range values { dst.Add(key, value) } }
\* over the keys not yet visited; every key is visited once and distinct
\* keys of an http.Header the handler filled through Set/Add are distinct
\* canonical keys, so the order of the visit does not show in the result
CopyHeaderKeys(dst, src, keys) ==
    IF keys = {} THEN dst
    ELSE LET k == CHOOSE x \in keys : TRUE
         IN  CopyHeaderKeys(AddValues(dst, k, src[k]), src, keys \ {k})

\* faulty variant: only the first value of each captured header is copied
CopyHeadersFirstValue(dst, src) ==
    CopyHeaderKeys(dst, [k \in DOMAIN src |-> <<src[k][1]>>], DOMAIN src)

CopyHeaders(dst, src) == CopyHeaderKeys(dst, src, DOMAIN src)

(***************************************************************************)
(* regexp.Compile and Regexp.MatchString for the patterns of the model:    *)
(* literals, ".", postfix "*" and "+", a leading "^" and a trailing "$".   *)
(***************************************************************************)
CountChar(s, c) == Cardinality({i \in 1..Len(s) : s[i] = c})

\* regexp.Compile fails on a bracket or a parenthesis that is not closed
\* and on a repetition operator that has nothing to repeat
CompileOk(p) ==
    /\ CountChar(p, "[") = CountChar(p, "]")
    /\ CountChar(p, "(") = CountChar(p, ")")
    /\ ~(p # <<>> /\ p[1] \in {"*", "+"})
    /\ ~(Len(p) >= 2 /\ p[1] = "^" /\ p[2] \in {"*", "+"})

AtomMatches(a, c) == a = "." \/ a = c

RECURSIVE MatchHere(_, _, _, _)
\* the pattern from position i matches the text starting at position j
MatchHere(re, i, s, j) ==
    IF i > Len(re) THEN TRUE
    ELSE IF re[i] = "$" /\ i = Len(re) THEN j = Len(s) + 1
    ELSE IF i < Len(re) /\ re[i + 1] \in {"*", "+"}
         THEN \E k \in (IF re[i + 1] = "*" THEN j ELSE j + 1)..(Len(s) + 1) :
                 /\ \A m \in j..(k - 1) : AtomMatches(re[i], s[m])
                 /\ MatchHere(re, i + 2, s, k)
    ELSE /\ j <= Len(s)
         /\ AtomMatches(re[i], s[j])
         /\ MatchHere(re, i + 1, s, j + 1)

\* Regexp.MatchString: the pattern matches somewhere in the text
MatchString(re, s) ==
    IF re # <<>> /\ re[1] = "^" THEN MatchHere(re, 2, s, 1)
    ELSE \E j \in 1..(Len(s) + 1) : MatchHere(re, 1, s, j)

(***************************************************************************)
(* HTTPCodeRanges: the CodeRangeSet of the design, a sequence of closed    *)
(* intervals <<low, high>>.                                                *)
(***************************************************************************)
\* faulty variant: the order of the two codes of a range is not tested
ParseRangeUnordered(block) ==
    LET codes == Split(block, "-")
    IN  IF Len(codes) = 1 /\ AtoiOk(codes[1])
        THEN [ok |-> TRUE, range |-> <<AtoiVal(codes[1]), AtoiVal(codes[1])>>]
        ELSE IF /\ Len(codes) = 2
                /\ AtoiOk(codes[1])
                /\ AtoiOk(codes[2])
        THEN [ok |-> TRUE, range |-> <<AtoiVal(codes[1]), AtoiVal(codes[2])>>]
        ELSE [ok |-> FALSE, range |-> <<0, 0>>]

\* one entry: "N", or "N-M" with N <= M, N and M integers
ParseRange(block) ==
    LET codes == Split(block, "-")
    IN  IF Len(codes) = 1 /\ AtoiOk(codes[1])
        THEN [ok |-> TRUE, range |-> <<AtoiVal(codes[1]), AtoiVal(codes[1])>>]
        ELSE IF /\ Len(codes) = 2
                /\ AtoiOk(codes[1])
                /\ AtoiOk(codes[2])
                /\ AtoiVal(codes[1]) <= AtoiVal(codes[2])
        THEN [ok |-> TRUE, range |-> <<AtoiVal(codes[1]), AtoiVal(codes[2])>>]
        ELSE [ok |-> FALSE, range |-> <<0, 0>>]

RECURSIVE NewHTTPCodeRanges(_)
\* the entries in order; the first entry that does not parse fails the
\* construction
NewHTTPCodeRanges(strBlocks) ==
    IF strBlocks = <<>> THEN [ok |-> TRUE, ranges |-> <<>>]
    ELSE LET first == ParseRange(Head(strBlocks))
             rest  == NewHTTPCodeRanges(Tail(strBlocks))
         IN  IF first.ok /\ rest.ok
             THEN [ok |-> TRUE, ranges |-> <<first.range>> \o rest.ranges]
             ELSE [ok |-> FALSE, ranges |-> <<>>]

RECURSIVE ContainsExclusive(_, _)
\* faulty variant: the upper endpoint is left out
ContainsExclusive(h, statusCode) ==
    IF h = <<>> THEN FALSE
    ELSE IF statusCode >= Head(h)[1] /\ statusCode < Head(h)[2] THEN TRUE
    ELSE ContainsExclusive(Tail(h), statusCode)

RECURSIVE Contains(_, _)
\* linear scan, the first range that holds the code answers
Contains(h, statusCode) ==
    IF h = <<>> THEN FALSE
    ELSE IF statusCode >= Head(h)[1] /\ statusCode <= Head(h)[2] THEN TRUE
    ELSE Contains(Tail(h), statusCode)

(***************************************************************************)
(* Config, CreateConfig and New                                            *)
(***************************************************************************)
EmptyMap == [k \in {} |-> <<>>]

CreateConfig ==
    [Status              |-> <<>>,
     Target              |-> <<>>,
     OutputStatus        |-> 302,
     OutputAddHeaders    |-> EmptyMap,
     OutputRemoveHeaders |-> <<>>,
     OutputAddCookies    |-> <<>>,
     OutputRemoveCookies |-> <<>>]

\* the patterns of a list compile, in order
AllCompile(patterns) == \A i \in 1..Len(patterns) : CompileOk(patterns[i])

ErrNone == "nil"

ErrTarget == "target url must be set"

ErrStatus == "status parse error"

ErrHeaderRegex == "invalid regex pattern"

ErrCookieRegex == "invalid cookie regex pattern"

\* the RedirectErrors New builds from a configuration and its parsed ranges
NewRedirectErrors(config, httpCodeRanges) ==
    [httpCodeRanges      |-> httpCodeRanges,
     target              |-> config.Target,
     outputStatus        |-> config.OutputStatus,
     outputAddHeaders    |-> config.OutputAddHeaders,
     outputRemoveHeaders |-> config.OutputRemoveHeaders,
     outputAddCookies    |-> config.OutputAddCookies,
     outputRemoveCookies |-> config.OutputRemoveCookies]

\* faulty variant: the cookie patterns are not compiled
NewNoCookieCheck(config) ==
    IF Len(config.Target) = 0
    THEN [handler |-> <<>>, err |-> ErrTarget]
    ELSE IF ~NewHTTPCodeRanges(config.Status).ok
    THEN [handler |-> <<>>, err |-> ErrStatus]
    ELSE IF ~AllCompile(config.OutputRemoveHeaders)
    THEN [handler |-> <<>>, err |-> ErrHeaderRegex]
    ELSE [handler |-> <<NewRedirectErrors(config, NewHTTPCodeRanges(config.Status).ranges)>>,
          err |-> ErrNone]

\* faulty variant: the status list is parsed before the target is checked
NewStatusFirst(config) ==
    IF ~NewHTTPCodeRanges(config.Status).ok
    THEN [handler |-> <<>>, err |-> ErrStatus]
    ELSE IF Len(config.Target) = 0
    THEN [handler |-> <<>>, err |-> ErrTarget]
    ELSE IF ~AllCompile(config.OutputRemoveHeaders)
    THEN [handler |-> <<>>, err |-> ErrHeaderRegex]
    ELSE IF ~AllCompile(config.OutputRemoveCookies)
    THEN [handler |-> <<>>, err |-> ErrCookieRegex]
    ELSE [handler |-> <<NewRedirectErrors(config, NewHTTPCodeRanges(config.Status).ranges)>>,
          err |-> ErrNone]

\* New: the handler is <<>> (nil) when err is not ErrNone
New(config) ==
    IF Len(config.Target) = 0
    THEN [handler |-> <<>>, err |-> ErrTarget]
    ELSE IF ~NewHTTPCodeRanges(config.Status).ok
    THEN [handler |-> <<>>, err |-> ErrStatus]
    ELSE IF ~AllCompile(config.OutputRemoveHeaders)
    THEN [handler |-> <<>>, err |-> ErrHeaderRegex]
    ELSE IF ~AllCompile(config.OutputRemoveCookies)
    THEN [handler |-> <<>>, err |-> ErrCookieRegex]
    ELSE [handler |-> <<NewRedirectErrors(config, NewHTTPCodeRanges(config.Status).ranges)>>,
          err |-> ErrNone]

(***************************************************************************)
(* http.ResponseWriter: the real sink.  header is the live header map,     *)
(* sent the headers as they were when the status was written (what the     *)
(* client receives), log the status and body writes that took effect, in   *)
(* order.  A broken sink fails every body write.                           *)
(***************************************************************************)
NewSink(broken) ==
    [header      |-> EmptyHeader,
     wroteHeader |-> FALSE,
     status      |-> 0,
     sent        |-> EmptyHeader,
     body        |-> <<>>,
     log         |-> <<>>,
     broken      |-> broken,
     panicked    |-> FALSE]

\* net/http panics on a status code outside 100..999
ValidStatusCode(code) == code >= 100 /\ code <= 999

\* ResponseWriter.WriteHeader: the first call fixes status and headers,
\* later calls are ignored
SinkWriteHeader(w, code) ==
    IF w.panicked THEN w
    ELSE IF ~ValidStatusCode(code) THEN [w EXCEPT !.panicked = TRUE]
    ELSE IF w.wroteHeader THEN w
    ELSE [w EXCEPT !.wroteHeader = TRUE,
                   !.status = code,
                   !.sent = w.header,
                   !.log = Append(w.log, [kind |-> "status", code |-> code, bytes |-> <<>>])]

\* ResponseWriter.Write: writes status 200 first when none was written
SinkWrite(w, buf) ==
    LET w1 == IF w.wroteHeader THEN w ELSE SinkWriteHeader(w, 200)
    IN  IF w1.panicked \/ w1.broken THEN w1
        ELSE [w1 EXCEPT !.body = w1.body \o buf,
                        !.log = Append(w1.log, [kind |-> "body", code |-> 0, bytes |-> buf])]

\* the error Write returns
SinkWriteFails(w) == w.broken

\* what the client receives
ClientView(w) == [status |-> w.status, header |-> w.sent, body |-> w.body, log |-> w.log]

(***************************************************************************)
(* codeCatcher: the ResponseCapture of the design.  Its code is Unset      *)
(* (fixed = FALSE) or Fixed.  The operations return the catcher and the    *)
(* real sink as they are after the call.                                   *)
(***************************************************************************)
newCodeCatcher(httpCodeRanges) ==
    [headerMap          |-> EmptyHeader,
     code               |-> 200,
     fixed              |-> FALSE,
     caughtFilteredCode |-> FALSE,
     httpCodeRanges     |-> httpCodeRanges]

isFilteredCode(cc) == cc.caughtFilteredCode

getCode(cc) == cc.code

getHeaders(cc) == cc.headerMap

\* faulty variant: every status-setting event sets the code again
CatcherWriteHeaderAgain(cc, w, code) ==
    LET filtered == Contains(cc.httpCodeRanges, code)
        cc1 == [cc EXCEPT !.code = code,
                          !.fixed = TRUE,
                          !.caughtFilteredCode = filtered]
    IN  IF filtered THEN [cc |-> cc1, rw |-> w]
        ELSE [cc |-> cc1,
              rw |-> SinkWriteHeader(
                         [w EXCEPT !.header = CopyHeaders(w.header, cc.headerMap)],
                         code)]

\* the first status-setting event fixes the code; an unfiltered code is
\* forwarded with the headers set so far, a filtered one is held back
CatcherWriteHeader(cc, w, code) ==
    IF cc.fixed THEN [cc |-> cc, rw |-> w]
    ELSE LET filtered == Contains(cc.httpCodeRanges, code)
             cc1 == [cc EXCEPT !.code = code,
                               !.fixed = TRUE,
                               !.caughtFilteredCode = filtered]
         IN  IF filtered THEN [cc |-> cc1, rw |-> w]
             ELSE [cc |-> cc1,
                   rw |-> SinkWriteHeader(
                              [w EXCEPT !.header = CopyHeaders(w.header, cc.headerMap)],
                              code)]

\* faulty variant: a body write does not fix the code
CatcherWriteNoStatus(cc, w, buf) ==
    IF cc.caughtFilteredCode THEN [cc |-> cc, rw |-> w]
    ELSE [cc |-> cc, rw |-> SinkWrite(w, buf)]

\* a body write without a status fixes the code at 200; the bytes of a
\* filtered response are dropped, the others forwarded
CatcherWrite(cc, w, buf) ==
    LET r == IF cc.fixed THEN [cc |-> cc, rw |-> w] ELSE CatcherWriteHeader(cc, w, 200)
    IN  IF r.cc.caughtFilteredCode THEN r
        ELSE [cc |-> r.cc, rw |-> SinkWrite(r.rw, buf)]

\* Header().Set / Header().Add on the catcher: kept by the catcher, and
\* passed on to the sink's header map once an unfiltered code is fixed
CatcherHeaderOp(cc, w, add, key, value) ==
    LET op(h) == IF add THEN HeaderAdd(h, key, value) ELSE HeaderSet(h, key, value)
    IN  [cc |-> [cc EXCEPT !.headerMap = op(cc.headerMap)],
         rw |-> IF cc.fixed /\ ~cc.caughtFilteredCode
                THEN [w EXCEPT !.header = op(w.header)]
                ELSE w]

(***************************************************************************)
(* RedirectErrors.ServeHTTP: the steps of the redirect path.               *)
(***************************************************************************)
StrLocation == <<"L", "o", "c", "a", "t", "i", "o", "n">>

StrSetCookie == <<"S", "e", "t", "-", "C", "o", "o", "k", "i", "e">>

StrXForwardedProto == <<"X", "-", "F", "o", "r", "w", "a", "r", "d", "e", "d", "-", "P", "r", "o", "t", "o">>

StrXForwardedHost == <<"X", "-", "F", "o", "r", "w", "a", "r", "d", "e", "d", "-", "H", "o", "s", "t">>

StrStatusPlaceholder == <<"{", "s", "t", "a", "t", "u", "s", "}">>

StrURLPlaceholder == <<"{", "u", "r", "l", "}">>

StrRedirecting == <<"R", "e", "d", "i", "r", "e", "c", "t", "i", "n", "g">>

StrDeletionSuffix == <<"=", ";", " ", "P", "a", "t", "h", "=", "/", ";", " ", "M", "a", "x", "-", "A", "g", "e", "=", "0", ";", " ", "H", "t", "t", "p", "O", "n", "l", "y", ";", " ", "S", "e", "c", "u", "r", "e">>

StrContentType == <<"C", "o", "n", "t", "e", "n", "t", "-", "T", "y", "p", "e">>

StrContentLength == <<"C", "o", "n", "t", "e", "n", "t", "-", "L", "e", "n", "g", "t", "h">>

StrNosniffKey == <<"X", "-", "C", "o", "n", "t", "e", "n", "t", "-", "T", "y", "p", "e", "-", "O", "p", "t", "i", "o", "n", "s">>

\* faulty variant: one forwarded header is enough
fullURLEither(req) ==
    LET proto == HeaderGet(req.Header, StrXForwardedProto)
        host  == HeaderGet(req.Header, StrXForwardedHost)
    IN  IF Len(proto) # 0 \/ Len(host) # 0
        THEN proto \o <<":", "/", "/">> \o host \o RequestURI(req.URL)
        ELSE URLString(req.URL)

\* try to cobble together the original URL
fullURL(req) ==
    LET proto == HeaderGet(req.Header, StrXForwardedProto)
        host  == HeaderGet(req.Header, StrXForwardedHost)
    IN  IF Len(proto) # 0 /\ Len(host) # 0
        THEN proto \o <<":", "/", "/">> \o host \o RequestURI(req.URL)
        ELSE URLString(req.URL)

\* faulty variant: {url} is replaced first, by the URL as it is, and
\* {status} afterwards
locationURLFirstRaw(a, code, req) ==
    ReplaceAll(ReplaceAll(a.target, StrURLPlaceholder, fullURL(req)),
               StrStatusPlaceholder, Itoa(code))

\* faulty variant: {status} becomes the output status
locationOutputStatus(a, code, req) ==
    ReplaceAll(ReplaceAll(a.target, StrStatusPlaceholder, Itoa(a.outputStatus)),
               StrURLPlaceholder, QueryEscape(fullURL(req)))

location(a, code, req) ==
    ReplaceAll(ReplaceAll(a.target, StrStatusPlaceholder, Itoa(code)),
               StrURLPlaceholder, QueryEscape(fullURL(req)))

\* the orders in which a range over a map with these keys can visit them
Orders(keys) ==
    {ord \in [1..Cardinality(keys) -> keys] :
        \A i, j \in 1..Cardinality(keys) : ord[i] = ord[j] => i = j}

RECURSIVE AddCustomHeadersAppend(_, _, _)
\* faulty variant: the custom headers are added to the values present
AddCustomHeadersAppend(h, m, ord) ==
    IF ord = <<>> THEN h
    ELSE AddCustomHeadersAppend(HeaderAdd(h, Head(ord), m[Head(ord)]), m, Tail(ord))

RECURSIVE AddCustomHeaders(_, _, _)
\* for key, value := range a.outputAddHeaders { rw.Header().Set(key, value) }
\* visiting the keys in the order ord
AddCustomHeaders(h, m, ord) ==
    IF ord = <<>> THEN h
    ELSE AddCustomHeaders(HeaderSet(h, Head(ord), m[Head(ord)]), m, Tail(ord))

\* faulty variant: only the last pattern of the list is tested
MatchesAnyLast(patterns, name) ==
    IF patterns = <<>> THEN FALSE
    ELSE MatchString(patterns[Len(patterns)], name)

RECURSIVE MatchesAny(_, _)
\* the inner loop over the patterns, left at the first match
MatchesAny(patterns, name) ==
    IF patterns = <<>> THEN FALSE
    ELSE IF MatchString(Head(patterns), name) THEN TRUE
    ELSE MatchesAny(Tail(patterns), name)

RECURSIVE RemoveHeaderKeysOnce(_, _, _)
\* faulty variant: the break leaves the loop over the headers, so that at
\* most one header is deleted
RemoveHeaderKeysOnce(h, keys, patterns) ==
    IF keys = {} THEN h
    ELSE LET key == CHOOSE x \in keys : TRUE
         IN  IF MatchesAny(patterns, key) THEN HeaderDel(h, key)
             ELSE RemoveHeaderKeysOnce(h, keys \ {key}, patterns)

RECURSIVE RemoveHeaderKeys(_, _, _)
\* for key := range rw.Header() { ... rw.Header().Del(key) ... } over the
\* keys not yet visited; only the visited key is ever deleted
RemoveHeaderKeys(h, keys, patterns) ==
    IF keys = {} THEN h
    ELSE LET key == CHOOSE x \in keys : TRUE
         IN  RemoveHeaderKeys(IF MatchesAny(patterns, key) THEN HeaderDel(h, key) ELSE h,
                              keys \ {key}, patterns)

\* faulty variant: the header Location is never removed
RemoveHeadersKeepLocation(h, patterns) ==
    RemoveHeaderKeys(h, DOMAIN h \ {StrLocation}, patterns)

RemoveHeaders(h, patterns) == RemoveHeaderKeys(h, DOMAIN h, patterns)

RECURSIVE AddCookiesSet(_, _)
\* faulty variant: each cookie replaces the Set-Cookie values present
AddCookiesSet(h, cookies) ==
    IF cookies = <<>> THEN h
    ELSE AddCookiesSet(HeaderSet(h, StrSetCookie, Head(cookies)), Tail(cookies))

RECURSIVE AddCookies(_, _)
AddCookies(h, cookies) ==
    IF cookies = <<>> THEN h
    ELSE AddCookies(HeaderAdd(h, StrSetCookie, Head(cookies)), Tail(cookies))

\* Request.Cookies: the cookies of the request, those with an empty name
\* skipped
RequestCookies(req) == SelectSeq(req.Cookies, LAMBDA c : c.Name # <<>>)

RECURSIVE RemoveCookiesLoopAll(_, _, _, _)
\* faulty variant: the removedCookies set is not consulted
RemoveCookiesLoopAll(h, cookies, patterns, removedCookies) ==
    IF cookies = <<>> THEN h
    ELSE LET cookieName == Head(cookies).Name
         IN  IF MatchesAny(patterns, cookieName)
             THEN RemoveCookiesLoopAll(
                      HeaderAdd(h, StrSetCookie, cookieName \o StrDeletionSuffix),
                      Tail(cookies), patterns, removedCookies \cup {cookieName})
             ELSE RemoveCookiesLoopAll(h, Tail(cookies), patterns, removedCookies)

RECURSIVE RemoveCookiesLoop(_, _, _, _)
\* the loop over the request cookies with the removedCookies set
RemoveCookiesLoop(h, cookies, patterns, removedCookies) ==
    IF cookies = <<>> THEN h
    ELSE LET cookieName == Head(cookies).Name
         IN  IF MatchesAny(patterns, cookieName) /\ cookieName \notin removedCookies
             THEN RemoveCookiesLoop(
                      HeaderAdd(h, StrSetCookie, cookieName \o StrDeletionSuffix),
                      Tail(cookies), patterns, removedCookies \cup {cookieName})
             ELSE RemoveCookiesLoop(h, Tail(cookies), patterns, removedCookies)

\* faulty variant: the cookies the response sets are looked at too
RemoveCookiesOfResponse(h, req, patterns) ==
    LET set == IF StrSetCookie \in DOMAIN h THEN h[StrSetCookie] ELSE <<>>
        named == [i \in 1..Len(set) |-> [Name |-> Split(set[i], "=")[1], Value |-> <<>>]]
    IN  IF Len(patterns) > 0
        THEN RemoveCookiesLoop(h, RequestCookies(req) \o named, patterns, {})
        ELSE h

RemoveCookies(h, req, patterns) ==
    IF Len(patterns) > 0 THEN RemoveCookiesLoop(h, RequestCookies(req), patterns, {})
    ELSE h

\* faulty variant: the composed Location is added to the captured values
RedirectStepsAddLocation(a, cc, w, req, ord) ==
    LET copied   == CopyHeaders(w.header, getHeaders(cc))
        located  == HeaderAdd(copied, StrLocation, location(a, getCode(cc), req))
        added    == AddCustomHeaders(located, a.outputAddHeaders, ord)
        removed  == RemoveHeaders(added, a.outputRemoveHeaders)
        cookies  == AddCookies(removed, a.outputAddCookies)
    IN  [copied  |-> copied,
         located |-> located,
         added   |-> added,
         removed |-> removed,
         cookies |-> cookies,
         final   |-> RemoveCookies(cookies, req, a.outputRemoveCookies)]

\* faulty variant: the headers are removed after the cookies were added
RedirectStepsRemoveLast(a, cc, w, req, ord) ==
    LET copied == CopyHeaders(w.header, getHeaders(cc))
        located == HeaderSet(copied, StrLocation, location(a, getCode(cc), req))
        added == AddCustomHeaders(located, a.outputAddHeaders, ord)
        cookies == AddCookies(added, a.outputAddCookies)
        removed == RemoveHeaders(cookies, a.outputRemoveHeaders)
    IN  [copied |-> copied, located |-> located, added |-> added, removed |-> removed,
         cookies |-> removed,
         final |-> RemoveCookies(removed, req, a.outputRemoveCookies)]

\* faulty variant: the deletion directives are added before the cookies
RedirectStepsDirectivesFirst(a, cc, w, req, ord) ==
    LET copied == CopyHeaders(w.header, getHeaders(cc))
        located == HeaderSet(copied, StrLocation, location(a, getCode(cc), req))
        added == AddCustomHeaders(located, a.outputAddHeaders, ord)
        removed == RemoveHeaders(added, a.outputRemoveHeaders)
        directives == RemoveCookies(removed, req, a.outputRemoveCookies)
    IN  [copied |-> copied, located |-> located, added |-> added, removed |-> removed,
         cookies |-> directives,
         final |-> AddCookies(directives, a.outputAddCookies)]

\* faulty variant: Location is set after the custom headers were added
RedirectStepsLocationLast(a, cc, w, req, ord) ==
    LET copied == CopyHeaders(w.header, getHeaders(cc))
        added == AddCustomHeaders(copied, a.outputAddHeaders, ord)
        located == HeaderSet(added, StrLocation, location(a, getCode(cc), req))
        removed == RemoveHeaders(located, a.outputRemoveHeaders)
        cookies == AddCookies(removed, a.outputAddCookies)
    IN  [copied |-> copied, located |-> located, added |-> located, removed |-> removed,
         cookies |-> cookies,
         final |-> RemoveCookies(cookies, req, a.outputRemoveCookies)]

\* the header map of the real sink after each step of the redirect path:
\* the captured headers copied, Location set, the custom headers added, the
\* headers removed, the cookies added, the cookies removed
RedirectSteps(a, cc, w, req, ord) ==
    LET copied   == CopyHeaders(w.header, getHeaders(cc))
        located  == HeaderSet(copied, StrLocation, location(a, getCode(cc), req))
        added    == AddCustomHeaders(located, a.outputAddHeaders, ord)
        removed  == RemoveHeaders(added, a.outputRemoveHeaders)
        cookies  == AddCookies(removed, a.outputAddCookies)
    IN  [copied  |-> copied,
         located |-> located,
         added   |-> added,
         removed |-> removed,
         cookies |-> cookies,
         final   |-> RemoveCookies(cookies, req, a.outputRemoveCookies)]

\* the header map of the redirect response
RedirectHeaders(a, cc, w, req, ord) == RedirectSteps(a, cc, w, req, ord).final

\* http.Error(rw, err.Error(), http.StatusInternalServerError)
HTTPError(w, msg, code) ==
    LET h == HeaderSet(HeaderSet(HeaderDel(w.header, StrContentLength),
                                 StrContentType, <<"t", "e", "x", "t">>),
                       StrNosniffKey, <<"n", "o", "s", "n", "i", "f", "f">>)
    IN  SinkWrite(SinkWriteHeader([w EXCEPT !.header = h], code), msg)

\* faulty variant: the fixed body is not written
RedirectNoBody(a, cc, w, req, ord) ==
    SinkWriteHeader([w EXCEPT !.header = RedirectHeaders(a, cc, w, req, ord)],
                    a.outputStatus)

\* faulty variant: the captured code is written as the status
RedirectCapturedStatus(a, cc, w, req, ord) ==
    LET w1 == [w EXCEPT !.header = RedirectHeaders(a, cc, w, req, ord)]
        w2 == SinkWriteHeader(w1, getCode(cc))
        w3 == SinkWrite(w2, StrRedirecting)
    IN  IF w2.panicked THEN w2
        ELSE IF SinkWriteFails(w3) THEN HTTPError(w3, <<"e", "r", "r">>, 500)
        ELSE w3

\* faulty variant: the status is written before the headers are set
RedirectStatusFirst(a, cc, w, req, ord) ==
    LET w1 == SinkWriteHeader(w, a.outputStatus)
        w2 == [w1 EXCEPT !.header = RedirectHeaders(a, cc, w, req, ord)]
        w3 == SinkWrite(w2, StrRedirecting)
    IN  IF w1.panicked THEN w1
        ELSE IF SinkWriteFails(w3) THEN HTTPError(w3, <<"e", "r", "r">>, 500)
        ELSE w3

\* the part of ServeHTTP after the downstream handler returned with a
\* filtered code
Redirect(a, cc, w, req, ord) ==
    LET w1 == [w EXCEPT !.header = RedirectHeaders(a, cc, w, req, ord)]
        w2 == SinkWriteHeader(w1, a.outputStatus)
        w3 == SinkWrite(w2, StrRedirecting)
    IN  IF w2.panicked THEN w2
        ELSE IF SinkWriteFails(w3) THEN HTTPError(w3, <<"e", "r", "r">>, 500)
        ELSE w3

(***************************************************************************)
(* The inputs of the model: configurations, requests and the calls of the  *)
(* downstream handler.                                                     *)
(***************************************************************************)
Entry401 == <<"4", "0", "1">>

Entry404 == <<"4", "0", "4">>

Entry404to404 == <<"4", "0", "4", "-", "4", "0", "4">>

Entry400to404 == <<"4", "0", "0", "-", "4", "0", "4">>

Entry200to299 == <<"2", "0", "0", "-", "2", "9", "9">>

EntryInvalid == <<"i", "n", "v", "a", "l", "i", "d">>

EntryReversed == <<"4", "0", "3", "-", "4", "0", "1">>

EntryThreeParts == <<"4", "0", "1", "-", "4", "0", "3", "-", "5", "0", "0">>

EntryOpenRange == <<"4", "0", "1", "-">>

TargetPlain == <<"h", "t", "t", "p", ":", "/", "/", "t", "/">>

TargetStatus == <<"/", "?", "s", "=", "{", "s", "t", "a", "t", "u", "s", "}">>

TargetBoth == <<"/", "?", "s", "=", "{", "s", "t", "a", "t", "u", "s", "}", "&", "u", "=", "{", "u", "r", "l", "}">>

TargetTwice == <<"{", "u", "r", "l", "}", "{", "s", "t", "a", "t", "u", "s", "}", "{", "u", "r", "l", "}", "{", "s", "t", "a", "t", "u", "s", "}">>

TargetBraces == <<"{", "x", "}", "{", "{", "s", "t", "a", "t", "u", "s", "}", "}", "{", "u", "r", "{", "u", "r", "l", "}", "l", "}", "}", "{">>

TargetSplit == <<"{", "s", "t", "a", "{", "u", "r", "l", "}", "t", "u", "s", "}", "{", "S", "T", "A", "T", "U", "S", "}", "{", "u", "r", "l">>

PatternX == <<"^", "X", "-", ".", "*", "$">>

PatternXA == <<"^", "X", "-", "A">>

PatternLocation == <<"o", "c", "a", "t">>

PatternInvalid == <<"[", "i", "n", "v", "a", "l", "i", "d", "(">>

PatternStar == <<"*", "a">>

PatternAuth == <<"^", "a", "u", "t", "h", "_", ".", "+", "$">>

PatternAny == <<".">>

KeyXA == <<"X", "-", "A">>

KeyXB == <<"x", "-", "b">>

ValueV == <<"v">>

ValueW == <<"w">>

CookieAdd == <<"s", "i", "d", "=", "1", ";", " ", "P", "a", "t", "h", "=", "/">>

HandlerKeys == {StrLocation, KeyXA}

HandlerValues == {ValueV}

HandlerCodes == {200, 401, 404, 500}

HandlerChunks == {<<"O", "K">>, <<"e", "r", "r">>}

QueryCodes == {199, 200, 299, 300, 399, 400, 401, 403, 404, 405, 500}

URLServer == [Scheme |-> <<>>, Host |-> <<>>, Path |-> <<"/", "a">>, RawQuery |-> <<"x", "=", "1">>]

URLAbsolute == [Scheme |-> <<"h", "t", "t", "p">>, Host |-> <<"l", "o", "c", "a", "l", "h", "o", "s", "t">>, Path |-> <<>>, RawQuery |-> <<>>]

URLBraces == [Scheme |-> <<"h", "t", "t", "p">>, Host |-> <<"l", "o", "c", "a", "l", "h", "o", "s", "t">>, Path |-> <<"/", "a", "p", "i">>, RawQuery |-> <<"r", "=", "{", "u", "r", "l", "}">>]

ProtoHTTPS == <<"h", "t", "t", "p", "s">>

HostExample == <<"e", ".", "c", "o", "m">>

\* the header map of a request: each forwarded header absent, present and
\* empty, or present with a value
ForwardedHeaders ==
    {AddValues(AddValues(EmptyHeader, StrXForwardedProto, p), StrXForwardedHost, h) :
        p \in {<<>>, <<<<>>>>, <<ProtoHTTPS>>}, h \in {<<>>, <<<<>>>>, <<HostExample>>}}

CookiesNone == <<>>

CookiesAuth == <<[Name |-> <<"a", "u", "t", "h", "_", "u">>, Value |-> <<"1">>],
                 [Name |-> <<"k", "e", "e", "p">>, Value |-> <<"2">>],
                 [Name |-> <<"a", "u", "t", "h", "_", "u">>, Value |-> <<"3">>]>>

RequestPlain == [URL |-> URLAbsolute, Header |-> EmptyHeader, Cookies |-> CookiesNone]

RequestFull ==
    [URL     |-> URLServer,
     Header  |-> HeaderSet(HeaderSet(EmptyHeader, StrXForwardedProto, ProtoHTTPS),
                           StrXForwardedHost, HostExample),
     Cookies |-> CookiesAuth]

\* a configuration that only redirects, and one that uses every option
ConfigPlain(status, target, outputStatus) ==
    [CreateConfig EXCEPT !.Status = status, !.Target = target,
                         !.OutputStatus = outputStatus]

ConfigFull(status, target, outputStatus) ==
    [Status              |-> status,
     Target              |-> target,
     OutputStatus        |-> outputStatus,
     OutputAddHeaders    |-> (KeyXB :> ValueW) @@ (KeyXA :> ValueW),
     OutputRemoveHeaders |-> <<PatternXA, PatternX>>,
     OutputAddCookies    |-> <<CookieAdd, CookieAdd>>,
     OutputRemoveCookies |-> <<PatternAuth, PatternAny>>]

(***************************************************************************)
(* The state: the configuration handed to New, what New returned, the      *)
(* request being served, the catcher and the real sink of that request,    *)
(* and the local variables of ServeHTTP.                                   *)
(***************************************************************************)
VARIABLES
    config,     \* the Config given to New
    handler,    \* <<>> (nil) or <<a>>, the RedirectErrors New returned
    err,        \* the error New returned
    req,        \* the request
    pc,         \* "Config", "Failed", "Idle", "Queried", "Running",
                \* "PassedThrough", "Redirected"
    catcher,    \* the codeCatcher of the request
    rw,         \* the real sink of the request
    ref,        \* a sink that receives the downstream handler's calls directly
    ops,        \* number of calls the downstream handler has made
    statusCalls,\* the status-setting events of the request, in order: the
                \* WriteHeader calls and a body write that came before any
    local,      \* ServeHTTP's code, fullURL and location, and the header map
                \* of the sink after each step of the redirect path
    query,      \* <<>> or the last Contains query and its answer
    reqs        \* the requests one handler serves concurrently, by number

vars == <<config, handler, err, req, pc, catcher, rw, ref, ops, statusCalls, local, query,
         reqs>>

NoSteps ==
    [copied |-> EmptyHeader, located |-> EmptyHeader, added |-> EmptyHeader,
     removed |-> EmptyHeader, cookies |-> EmptyHeader, final |-> EmptyHeader]

NoLocal == [code |-> 0, fullURL |-> <<>>, location |-> <<>>, steps |-> NoSteps]

\* broken: whether the body writes of the real sink fail
InitSink(configs, requests, broken) ==
    /\ config \in configs
    /\ req \in requests
    /\ handler = <<>>
    /\ err = ErrNone
    /\ pc = "Config"
    /\ catcher = newCodeCatcher(<<>>)
    /\ \E b \in broken : rw = NewSink(b) /\ ref = NewSink(b)
    /\ ops = 0
    /\ statusCalls = <<>>
    /\ local = NoLocal
    /\ query = <<>>
    /\ reqs = <<>>

InitWith(configs, requests) == InitSink(configs, requests, {FALSE})

\* the plugin host calls New with the configuration
Construct ==
    /\ pc = "Config"
    /\ handler' = New(config).handler
    /\ err' = New(config).err
    /\ pc' = IF New(config).err = ErrNone THEN "Idle" ELSE "Failed"
    /\ UNCHANGED <<config, req, catcher, rw, ref, ops, statusCalls, local, query, reqs>>

\* a direct call of HTTPCodeRanges.Contains on the ranges of the handler
ContainsQuery ==
    /\ pc = "Idle"
    /\ \E code \in QueryCodes :
          query' = <<[code |-> code, answer |-> Contains(handler[1].httpCodeRanges, code)]>>
    /\ pc' = "Queried"
    /\ UNCHANGED <<config, handler, err, req, catcher, rw, ref, ops, statusCalls, local, reqs>>

\* ServeHTTP up to the call of the downstream handler
ServeHTTPBegin ==
    /\ pc = "Idle"
    /\ catcher' = newCodeCatcher(handler[1].httpCodeRanges)
    /\ pc' = "Running"
    /\ UNCHANGED <<config, handler, err, req, rw, ref, ops, statusCalls, local, query, reqs>>

\* the downstream handler sets or adds a header
HandlerHeader ==
    /\ pc = "Running"
    /\ ops < MaxOps
    /\ \E add \in BOOLEAN, key \in HandlerKeys, value \in HandlerValues :
          /\ catcher' = CatcherHeaderOp(catcher, rw, add, key, value).cc
          /\ rw' = CatcherHeaderOp(catcher, rw, add, key, value).rw
          /\ ref' = [ref EXCEPT !.header = IF add THEN HeaderAdd(ref.header, key, value)
                                            ELSE HeaderSet(ref.header, key, value)]
    /\ ops' = ops + 1
    /\ UNCHANGED <<config, handler, err, req, pc, statusCalls, local, query, reqs>>

\* the downstream handler calls WriteHeader
HandlerWriteHeader ==
    /\ pc = "Running"
    /\ ops < MaxOps
    /\ \E code \in HandlerCodes :
          /\ catcher' = CatcherWriteHeader(catcher, rw, code).cc
          /\ rw' = CatcherWriteHeader(catcher, rw, code).rw
          /\ ref' = SinkWriteHeader(ref, code)
          /\ statusCalls' = Append(statusCalls, [code |-> code, implicit |-> FALSE])
    /\ ops' = ops + 1
    /\ UNCHANGED <<config, handler, err, req, pc, local, query, reqs>>

\* the downstream handler calls Write
HandlerWrite ==
    /\ pc = "Running"
    /\ ops < MaxOps
    /\ \E buf \in HandlerChunks :
          /\ catcher' = CatcherWrite(catcher, rw, buf).cc
          /\ rw' = CatcherWrite(catcher, rw, buf).rw
          /\ ref' = SinkWrite(ref, buf)
    /\ statusCalls' = IF statusCalls = <<>>
                      THEN <<[code |-> 200, implicit |-> TRUE]>>
                      ELSE statusCalls
    /\ ops' = ops + 1
    /\ UNCHANGED <<config, handler, err, req, pc, local, query, reqs>>

\* faulty variant: the catcher is not consulted
ServeHTTPReturnsEarlyNever(cc) == FALSE

\* faulty variant: the condition on the catcher is inverted
ServeHTTPReturnsEarlyInverted(cc) == isFilteredCode(cc)

\* if !catcher.isFilteredCode() { return }
ServeHTTPReturnsEarly(cc) == ~isFilteredCode(cc)

\* faulty variant: the early return is missing, the status and the body of
\* the redirect are written after a passthrough as well
ServeHTTPEndNoReturn ==
    /\ pc = "Running"
    /\ pc' = IF ServeHTTPReturnsEarly(catcher) THEN "PassedThrough" ELSE "Redirected"
    /\ \E ord \in Orders(DOMAIN handler[1].outputAddHeaders) :
          /\ local' = [code     |-> getCode(catcher),
                       fullURL  |-> fullURL(req),
                       location |-> location(handler[1], getCode(catcher), req),
                       steps    |-> RedirectSteps(handler[1], catcher, rw, req, ord)]
          /\ rw' = Redirect(handler[1], catcher, rw, req, ord)
    /\ UNCHANGED <<config, handler, err, req, catcher, ref, ops, statusCalls, query, reqs>>

\* the downstream handler returns and ServeHTTP runs to its end
ServeHTTPEnd ==
    /\ pc = "Running"
    /\ IF ServeHTTPReturnsEarly(catcher)
       THEN /\ pc' = "PassedThrough"
            /\ UNCHANGED <<rw, local>>
       ELSE /\ pc' = "Redirected"
            /\ \E ord \in Orders(DOMAIN handler[1].outputAddHeaders) :
                  /\ local' = [code     |-> getCode(catcher),
                               fullURL  |-> fullURL(req),
                               location |-> location(handler[1], getCode(catcher), req),
                               steps    |-> RedirectSteps(handler[1], catcher, rw, req, ord)]
                  /\ rw' = Redirect(handler[1], catcher, rw, req, ord)
    /\ UNCHANGED <<config, handler, err, req, catcher, ref, ops, statusCalls, query, reqs>>

Next ==
    \/ Construct
    \/ ContainsQuery
    \/ ServeHTTPBegin
    \/ HandlerHeader
    \/ HandlerWriteHeader
    \/ HandlerWrite
    \/ ServeHTTPEnd

(***************************************************************************)
(* Spec: requests served by handlers that differ in their status lists.    *)
(***************************************************************************)
StatusLists ==
    {<<>>, <<Entry401>>, <<Entry404, Entry200to299>>, <<Entry400to404>>,
     <<Entry404to404>>, <<Entry200to299, Entry401>>, <<EntryReversed, Entry404>>}

Configs ==
    {ConfigPlain(st, TargetStatus, os) : st \in StatusLists, os \in {302, 401}}
    \cup {ConfigFull(st, TargetStatus, 302) : st \in StatusLists}

Init == InitWith(Configs, {RequestPlain, RequestFull})

Spec == Init /\ [][Next]_vars

(***************************************************************************)
(* SpecNew: New called with valid and invalid configurations.              *)
(***************************************************************************)
EntryEmpty == <<>>

StatusListsNew ==
    {<<>>, <<Entry401>>, <<Entry401, Entry400to404>>, <<EntryReversed>>,
     <<EntryInvalid>>, <<Entry401, EntryInvalid>>, <<EntryThreeParts>>,
     <<EntryOpenRange, Entry404>>, <<EntryEmpty>>}

PatternLists ==
    {<<>>, <<PatternX>>, <<PatternAuth, PatternAny>>, <<PatternInvalid>>,
     <<PatternX, PatternInvalid>>, <<PatternStar>>}

ConfigsNew ==
    {[Status              |-> st,
      Target              |-> t,
      OutputStatus        |-> 302,
      OutputAddHeaders    |-> EmptyMap,
      OutputRemoveHeaders |-> rh,
      OutputAddCookies    |-> <<>>,
      OutputRemoveCookies |-> rc] :
        st \in StatusListsNew, t \in {<<>>, TargetPlain},
        rh \in PatternLists, rc \in PatternLists}

InitNew == InitWith(ConfigsNew, {RequestFull})

SpecNew == InitNew /\ [][Next]_vars

(***************************************************************************)
(* SpecCompose: redirects with different target templates and requests.    *)
(***************************************************************************)
Targets == {TargetPlain, TargetStatus, TargetBoth, TargetTwice, TargetBraces, TargetSplit}

RequestBraces ==
    [URL     |-> URLBraces,
     Header  |-> HeaderSet(HeaderSet(EmptyHeader, StrXForwardedProto, ProtoHTTPS),
                           StrXForwardedHost, HostExample),
     Cookies |-> CookiesNone]

ConfigsCompose == {ConfigPlain(<<Entry400to404, Entry200to299>>, t, 302) : t \in Targets}

InitCompose == InitWith(ConfigsCompose, {RequestPlain, RequestFull, RequestBraces})

SpecCompose == InitCompose /\ [][Next]_vars

(***************************************************************************)
(* SpecForwarded: redirects of requests that differ in their URL and in    *)
(* their forwarded headers.                                                *)
(***************************************************************************)
RequestsForwarded ==
    {[URL |-> u, Header |-> h, Cookies |-> CookiesNone] :
        u \in {URLServer, URLAbsolute, URLBraces}, h \in ForwardedHeaders}

InitForwarded ==
    InitWith({ConfigPlain(<<Entry401>>, TargetBoth, 302)}, RequestsForwarded)

SpecForwarded == InitForwarded /\ [][Next]_vars

(***************************************************************************)
(* SpecHeaders: redirects by handlers that differ in the headers they add  *)
(* and in the header patterns they remove.                                 *)
(***************************************************************************)
KeyXALower == <<"x", "-", "a">>

ValueZ == <<"z">>

KeyLocationLower == <<"l", "o", "c", "a", "t", "i", "o", "n">>

AddHeaderMaps ==
    {EmptyMap,
     (KeyXA :> ValueW),
     (KeyXB :> ValueW) @@ (KeyXA :> ValueZ),
     (KeyXA :> ValueW) @@ (KeyXALower :> ValueZ),
     (KeyLocationLower :> ValueW),
     (StrLocation :> ValueW) @@ (KeyLocationLower :> ValueZ)}

RemoveHeaderLists ==
    {<<>>, <<PatternXA>>, <<PatternX>>, <<PatternXA, PatternX>>, <<PatternX, PatternXA>>,
     <<PatternXA, PatternXA>>, <<PatternLocation>>, <<PatternAuth>>}

ConfigsHeaders ==
    {[Status              |-> <<Entry401>>,
      Target              |-> TargetStatus,
      OutputStatus        |-> 302,
      OutputAddHeaders    |-> ah,
      OutputRemoveHeaders |-> rh,
      OutputAddCookies    |-> <<>>,
      OutputRemoveCookies |-> <<>>] :
        ah \in AddHeaderMaps, rh \in RemoveHeaderLists}

InitHeaders == InitWith(ConfigsHeaders, {RequestPlain})

SpecHeaders == InitHeaders /\ [][Next]_vars

(***************************************************************************)
(* SpecCookies: redirects by handlers that differ in the cookies they add  *)
(* and in the cookie patterns they remove.                                 *)
(***************************************************************************)
CookieEmpty == <<>>

CookieMalformed == <<";", ";">>

AddCookieLists ==
    {<<>>, <<CookieAdd, CookieAdd>>, <<CookieMalformed, CookieEmpty, CookieAdd>>}

RemoveCookieLists ==
    {<<>>, <<PatternAuth>>, <<PatternAuth, PatternAny>>, <<PatternAny, PatternAuth, PatternAuth>>}

ConfigsCookies ==
    {[Status              |-> <<Entry401>>,
      Target              |-> TargetStatus,
      OutputStatus        |-> 302,
      OutputAddHeaders    |-> ah,
      OutputRemoveHeaders |-> <<>>,
      OutputAddCookies    |-> ac,
      OutputRemoveCookies |-> rc] :
        ah \in {EmptyMap, (StrSetCookie :> ValueW)},
        ac \in AddCookieLists, rc \in RemoveCookieLists}

InitCookies == InitWith(ConfigsCookies, {RequestPlain, RequestFull})

SpecCookies == InitCookies /\ [][Next]_vars

(***************************************************************************)
(* SpecStatus: redirects with an output status that is zero, and redirects *)
(* written to a sink whose body writes fail.                               *)
(***************************************************************************)
ConfigsStatus == {ConfigPlain(<<Entry401>>, TargetStatus, os) : os \in {0, 302, 307}}

InitStatus == InitSink(ConfigsStatus, {RequestPlain}, {FALSE, TRUE})

SpecStatus == InitStatus /\ [][Next]_vars

(***************************************************************************)
(* SpecConcurrent: one handler serves two requests at the same time.  Each *)
(* request has its own catcher and its own sink; the steps of the two      *)
(* requests interleave in every order.  The redirect path is one step: it  *)
(* reads the handler and writes only the request's own sink and locals.    *)
(***************************************************************************)
MaxConcOps == 2

RequestIds == {1, 2}

\* the calls the downstream handler of a concurrent request makes
ConcCalls ==
    {[kind |-> "header", add |-> TRUE, key |-> KeyXA, value |-> ValueV, code |-> 0, buf |-> <<>>],
     [kind |-> "status", add |-> FALSE, key |-> <<>>, value |-> <<>>, code |-> 401, buf |-> <<>>],
     [kind |-> "status", add |-> FALSE, key |-> <<>>, value |-> <<>>, code |-> 200, buf |-> <<>>],
     [kind |-> "body", add |-> FALSE, key |-> <<>>, value |-> <<>>, code |-> 0, buf |-> <<"O", "K">>]}

\* one call of the downstream handler on the catcher of its request
ApplyCall(cc, w, c) ==
    IF c.kind = "header" THEN CatcherHeaderOp(cc, w, c.add, c.key, c.value)
    ELSE IF c.kind = "status" THEN CatcherWriteHeader(cc, w, c.code)
    ELSE CatcherWrite(cc, w, c.buf)

\* a request that ServeHTTP has not been called with yet
NewRequest(r, broken) ==
    [req     |-> r,
     pc      |-> "Idle",
     catcher |-> newCodeCatcher(<<>>),
     rw      |-> NewSink(broken),
     calls   |-> <<>>]

ConfigConcurrent ==
    [Status              |-> <<Entry401>>,
     Target              |-> TargetBoth,
     OutputStatus        |-> 302,
     OutputAddHeaders    |-> (KeyXB :> ValueW),
     OutputRemoveHeaders |-> <<PatternXA>>,
     OutputAddCookies    |-> <<CookieAdd>>,
     OutputRemoveCookies |-> <<PatternAuth>>]

InitConcurrent ==
    /\ config = ConfigConcurrent
    /\ req = RequestPlain
    /\ handler = <<>>
    /\ err = ErrNone
    /\ pc = "Config"
    /\ catcher = newCodeCatcher(<<>>)
    /\ rw = NewSink(FALSE)
    /\ ref = NewSink(FALSE)
    /\ ops = 0
    /\ statusCalls = <<>>
    /\ local = NoLocal
    /\ query = <<>>
    /\ \E r \in {RequestPlain, RequestFull}, b \in BOOLEAN :
          reqs = <<NewRequest(RequestFull, b), NewRequest(r, FALSE)>>

\* ServeHTTP is called with request i, up to the call of the downstream
\* handler
ConcServeHTTPBegin ==
    /\ pc = "Idle"
    /\ \E i \in RequestIds :
          /\ reqs[i].pc = "Idle"
          /\ reqs' = [reqs EXCEPT ![i].pc = "Running",
                                  ![i].catcher = newCodeCatcher(handler[1].httpCodeRanges)]
    /\ UNCHANGED <<config, handler, err, req, pc, catcher, rw, ref, ops, statusCalls, local,
                   query>>

\* the downstream handler of request i makes a call
ConcHandlerCall ==
    /\ \E i \in RequestIds, c \in ConcCalls :
          /\ reqs[i].pc = "Running"
          /\ Len(reqs[i].calls) < MaxConcOps
          /\ reqs' = [reqs EXCEPT ![i].catcher = ApplyCall(reqs[i].catcher, reqs[i].rw, c).cc,
                                  ![i].rw = ApplyCall(reqs[i].catcher, reqs[i].rw, c).rw,
                                  ![i].calls = Append(reqs[i].calls, c)]
    /\ UNCHANGED <<config, handler, err, req, pc, catcher, rw, ref, ops, statusCalls, local,
                   query>>

\* faulty variant: the deletion directives of a request are appended to the
\* add-cookies of the handler
ConcServeHTTPEndShared ==
    /\ \E i \in RequestIds :
          /\ reqs[i].pc = "Running"
          /\ IF ServeHTTPReturnsEarly(reqs[i].catcher)
             THEN /\ reqs' = [reqs EXCEPT ![i].pc = "PassedThrough"]
                  /\ UNCHANGED handler
             ELSE \E ord \in Orders(DOMAIN handler[1].outputAddHeaders) :
                     LET steps == RedirectSteps(handler[1], reqs[i].catcher, reqs[i].rw,
                                                reqs[i].req, ord)
                     IN  /\ reqs' = [reqs EXCEPT
                                ![i].pc = "Redirected",
                                ![i].rw = Redirect(handler[1], reqs[i].catcher, reqs[i].rw,
                                                   reqs[i].req, ord)]
                         /\ handler' = <<[handler[1] EXCEPT !.outputAddCookies =
                                                 steps.final[StrSetCookie]]>>
    /\ UNCHANGED <<config, err, req, pc, catcher, rw, ref, ops, statusCalls, local, query>>

\* the downstream handler of request i returns and ServeHTTP runs to its
\* end
ConcServeHTTPEnd ==
    /\ \E i \in RequestIds :
          /\ reqs[i].pc = "Running"
          /\ IF ServeHTTPReturnsEarly(reqs[i].catcher)
             THEN reqs' = [reqs EXCEPT ![i].pc = "PassedThrough"]
             ELSE \E ord \in Orders(DOMAIN handler[1].outputAddHeaders) :
                     reqs' = [reqs EXCEPT
                         ![i].pc = "Redirected",
                         ![i].rw = Redirect(handler[1], reqs[i].catcher, reqs[i].rw,
                                            reqs[i].req, ord)]
    /\ UNCHANGED <<config, handler, err, req, pc, catcher, rw, ref, ops, statusCalls, local,
                   query>>

NextConcurrent ==
    \/ Construct
    \/ ConcServeHTTPBegin
    \/ ConcHandlerCall
    \/ ConcServeHTTPEnd

SpecConcurrent == InitConcurrent /\ [][NextConcurrent]_vars

(***************************************************************************)
(* SpecDownstream: redirects of responses in which the downstream handler  *)
(* set cookies and multi-valued headers of its own, by handlers that       *)
(* remove headers and cookies and add cookies.                             *)
(***************************************************************************)
PatternSetCookie == <<"^", "S", "e", "t", "-">>

ValueU == <<"u">>

CookieDown == <<"a", "u", "t", "h", "_", "u", "=", "9">>

CookieB == <<"t", "=", "2">>

\* a request that carries a cookie named as the cookie CookieAdd sets
CookiesSid == <<[Name |-> <<"s", "i", "d">>, Value |-> <<"5">>],
                [Name |-> <<"a", "u", "t", "h", "_", "u">>, Value |-> <<"1">>]>>

RequestSid == [URL |-> URLAbsolute, Header |-> EmptyHeader, Cookies |-> CookiesSid]

\* the header calls of the downstream handler: name and value
DownstreamHeaders ==
    {<<StrSetCookie, CookieDown>>, <<KeyXA, ValueV>>, <<KeyXA, ValueU>>,
     <<StrLocation, ValueV>>}

ConfigsDownstream ==
    {[Status              |-> <<Entry401>>,
      Target              |-> TargetStatus,
      OutputStatus        |-> 302,
      OutputAddHeaders    |-> ah,
      OutputRemoveHeaders |-> rh,
      OutputAddCookies    |-> ac,
      OutputRemoveCookies |-> rc] :
        ah \in {EmptyMap, (StrSetCookie :> ValueW), (KeyXALower :> ValueW)},
        rh \in {<<>>, <<PatternSetCookie>>, <<PatternXA>>},
        ac \in {<<CookieAdd, CookieB>>},
        rc \in {<<>>, <<PatternAny>>}}

InitDownstream ==
    InitWith(ConfigsDownstream, {RequestPlain, RequestSid})

\* the downstream handler sets or adds one of its headers
DownstreamHeader ==
    /\ pc = "Running"
    /\ ops < MaxOps
    /\ \E add \in BOOLEAN, kv \in DownstreamHeaders :
          /\ catcher' = CatcherHeaderOp(catcher, rw, add, kv[1], kv[2]).cc
          /\ rw' = CatcherHeaderOp(catcher, rw, add, kv[1], kv[2]).rw
          /\ ref' = [ref EXCEPT !.header = IF add THEN HeaderAdd(ref.header, kv[1], kv[2])
                                            ELSE HeaderSet(ref.header, kv[1], kv[2])]
    /\ ops' = ops + 1
    /\ UNCHANGED <<config, handler, err, req, pc, statusCalls, local, query, reqs>>

NextDownstream ==
    \/ Construct
    \/ ServeHTTPBegin
    \/ DownstreamHeader
    \/ HandlerWriteHeader
    \/ HandlerWrite
    \/ ServeHTTPEnd

SpecDownstream == InitDownstream /\ [][NextDownstream]_vars

(***************************************************************************)
(* SpecExpand: redirects of requests whose URL holds the text of a         *)
(* placeholder, with the target templates of SpecCompose.                  *)
(***************************************************************************)
URLStatus == [Scheme |-> <<>>, Host |-> <<>>, Path |-> <<"/", "p">>, RawQuery |-> <<"s", "=", "{", "s", "t", "a", "t", "u", "s", "}">>]

RequestStatus == [URL |-> URLStatus, Header |-> EmptyHeader, Cookies |-> CookiesNone]

InitExpand == InitWith(ConfigsCompose, {RequestPlain, RequestBraces, RequestStatus})

SpecExpand == InitExpand /\ [][Next]_vars

(***************************************************************************)
(* Properties.                                                             *)
(***************************************************************************)
\* the interval each status entry of the model stands for
EntryInterval(e) ==
    CASE e = Entry401      -> <<401, 401>>
      [] e = Entry404      -> <<404, 404>>
      [] e = Entry404to404 -> <<404, 404>>
      [] e = Entry400to404 -> <<400, 404>>
      [] e = Entry200to299 -> <<200, 299>>

\* the code lies in at least one configured range, endpoints included
InConfiguredRange(status, code) ==
    \E i \in 1..Len(status) :
        EntryInterval(status[i])[1] <= code /\ code <= EntryInterval(status[i])[2]

Started == pc \in {"Running", "PassedThrough", "Redirected"}

Finished == pc \in {"PassedThrough", "Redirected"}

\* the code of the first status-setting event of the request
FirstCode == statusCalls[1].code

BodyWrites(w) == Cardinality({i \in 1..Len(w.log) : w.log[i].kind = "body"})

\* C1: when the code the downstream handler fixed lies in no configured
\* range, the real sink has received exactly the status, the headers and
\* the body writes the downstream handler made, in the same order, at every
\* moment of the request and at its end, and the request is not redirected.
PassthroughTransparent ==
    (Started /\ statusCalls # <<>> /\ ~InConfiguredRange(config.Status, FirstCode))
    => /\ ClientView(rw) = ClientView(ref)
       /\ pc # "Redirected"

PassthroughTransparentWitness ==
    /\ pc = "PassedThrough"
    /\ statusCalls # <<>>
    /\ ~InConfiguredRange(config.Status, FirstCode)
    /\ config.Status # <<>>
    /\ DOMAIN config.OutputAddHeaders # {}
    /\ config.OutputAddCookies # <<>>
    /\ DOMAIN ref.sent # {}
    /\ BodyWrites(ref) >= 1
    /\ ClientView(rw) = ClientView(ref)

\* C2: when the captured code lies in a configured range, no byte the
\* downstream handler writes reaches the real sink, and the body of the
\* finished response is exactly "Redirecting".
FilteredBodyIsFixedText ==
    (Started /\ statusCalls # <<>> /\ InConfiguredRange(config.Status, FirstCode))
    => /\ pc = "Running" => (rw.body = <<>> /\ BodyWrites(rw) = 0)
       /\ Finished => (rw.body = StrRedirecting /\ BodyWrites(rw) = 1)

FilteredBodyIsFixedTextWitness ==
    /\ pc = "Redirected"
    /\ InConfiguredRange(config.Status, FirstCode)
    /\ BodyWrites(ref) >= 2
    /\ rw.body = StrRedirecting

\* C3: a request whose first status-setting call is WriteHeader(c) is
\* redirected iff c lies in at least one configured range, endpoints
\* included; with an empty status list no request is redirected.
RedirectIffInRange ==
    /\ (Finished /\ statusCalls # <<>> /\ ~statusCalls[1].implicit)
       => ((pc = "Redirected") <=> InConfiguredRange(config.Status, FirstCode))
    /\ (Finished /\ config.Status = <<>>) => pc = "PassedThrough"

RedirectIffInRangeWitness ==
    /\ pc = "Redirected"
    /\ ~statusCalls[1].implicit
    /\ FirstCode = 404
    /\ config.Status = <<Entry400to404>>

\* a single-value entry "N" written as the range "N-N"
AsRange(e) == IF StrContains(e, <<"-">>) THEN e ELSE e \o <<"-">> \o e

AsRanges(status) == [i \in 1..Len(status) |-> AsRange(status[i])]

\* C4: Contains(code) is true iff the code lies within at least one parsed
\* interval, endpoints included, and it answers the same when every
\* single-value entry "N" is written as the range "N-N".
ContainsIffInInterval ==
    query # <<>>
    => /\ query[1].answer = InConfiguredRange(config.Status, query[1].code)
       /\ query[1].answer =
              Contains(NewHTTPCodeRanges(AsRanges(config.Status)).ranges, query[1].code)

ContainsIffInIntervalWitness ==
    /\ query # <<>>
    /\ config.Status = <<Entry404, Entry200to299>>
    /\ query[1].code = 299
    /\ query[1].answer

\* C5: once a status-setting event has happened, the captured code is the
\* code of the first one and neither it nor the filtered decision changes
\* in any later step; the request ends redirected iff that first code is
\* filtered.
CapturedCodeFixedOnce ==
    [][(pc = "Running" /\ statusCalls' # <<>>)
       => /\ catcher'.fixed
          /\ getCode(catcher') = statusCalls'[1].code
          /\ isFilteredCode(catcher') = InConfiguredRange(config.Status, statusCalls'[1].code)
          /\ statusCalls # <<>> =>
                /\ getCode(catcher') = getCode(catcher)
                /\ isFilteredCode(catcher') = isFilteredCode(catcher)
          /\ pc' # "Running" => ((pc' = "Redirected") <=> isFilteredCode(catcher))]_vars

CapturedCodeFixedOnceWitness ==
    /\ pc = "Redirected"
    /\ Len(statusCalls) >= 2
    /\ statusCalls[1].code = 401
    /\ statusCalls[2].code = 200
    /\ ~InConfiguredRange(config.Status, 200)
    /\ getCode(catcher) = 401

\* C6: a body write made before any status fixes the captured code at 200
\* at that moment; when 200 is configured the written bytes are not
\* forwarded and the request is redirected with {status} replaced by 200.
ImplicitStatusIs200 ==
    (Started /\ statusCalls # <<>> /\ statusCalls[1].implicit)
    => /\ catcher.fixed
       /\ getCode(catcher) = 200
       /\ InConfiguredRange(config.Status, 200) =>
             /\ isFilteredCode(catcher)
             /\ pc = "Running" => rw.log = <<>>
             /\ Finished =>
                   /\ pc = "Redirected"
                   /\ local.code = 200
                   /\ config.Target = TargetStatus =>
                         HeaderGet(rw.sent, StrLocation) = <<"/", "?", "s", "=", "2", "0", "0">>
                   /\ rw.body = StrRedirecting

ImplicitStatusIs200Witness ==
    /\ pc = "Redirected"
    /\ statusCalls[1].implicit
    /\ config.Target = TargetStatus
    /\ HeaderGet(rw.sent, StrLocation) = <<"/", "?", "s", "=", "2", "0", "0">>
    /\ ref.body # <<>>

\* the status entries and the patterns of the model that are well formed
ValidEntries ==
    {Entry401, Entry404, Entry404to404, Entry400to404, Entry200to299}

ValidPatterns == {PatternX, PatternXA, PatternLocation, PatternAuth, PatternAny}

AllIn(list, set) == \A i \in 1..Len(list) : list[i] \in set

ValidConfig(c) ==
    /\ c.Target # <<>>
    /\ AllIn(c.Status, ValidEntries)
    /\ AllIn(c.OutputRemoveHeaders, ValidPatterns)
    /\ AllIn(c.OutputRemoveCookies, ValidPatterns)

\* C7: New returns a handler and no error iff the target is non-empty,
\* every status entry is "N" or "N-M" (N <= M) with integer parts and every removal
\* pattern compiles; otherwise it returns an error and no handler, and no
\* request is served.
ConstructionIffValid ==
    pc # "Config"
    => /\ (handler # <<>>) <=> ValidConfig(config)
       /\ (handler # <<>>) <=> (err = ErrNone)
       /\ ~ValidConfig(config) => pc = "Failed"

ConstructionIffValidWitness ==
    /\ pc = "Failed"
    /\ config.Target # <<>>
    /\ config.Status = <<Entry401, Entry400to404>>
    /\ config.OutputRemoveHeaders = <<PatternAuth, PatternAny>>
    /\ config.OutputRemoveCookies = <<PatternX, PatternInvalid>>
    /\ handler = <<>>

\* C8: with an empty target New fails with "target url must be set" and
\* returns no handler, whatever the other fields hold.
EmptyTargetRejected ==
    (pc # "Config" /\ config.Target = <<>>)
    => /\ err = ErrTarget
       /\ handler = <<>>
       /\ pc = "Failed"

EmptyTargetRejectedWitness ==
    /\ pc = "Failed"
    /\ config.Target = <<>>
    /\ config.Status = <<EntryInvalid>>
    /\ config.OutputRemoveHeaders = <<PatternInvalid>>
    /\ err = ErrTarget

\* the decimal text of the status codes of the model
CodeText(code) ==
    CASE code = 200 -> <<"2", "0", "0">>
      [] code = 401 -> <<"4", "0", "1">>
      [] code = 404 -> <<"4", "0", "4">>
      [] code = 500 -> <<"5", "0", "0">>

RECURSIVE Expand(_, _, _, _)
\* the template from position i with each placeholder replaced, in one
\* pass from left to right, everything else copied
Expand(t, i, status, url) ==
    IF i > Len(t) THEN <<>>
    ELSE IF HasPrefixAt(t, i, StrStatusPlaceholder)
         THEN status \o Expand(t, i + Len(StrStatusPlaceholder), status, url)
    ELSE IF HasPrefixAt(t, i, StrURLPlaceholder)
         THEN url \o Expand(t, i + Len(StrURLPlaceholder), status, url)
    ELSE <<t[i]>> \o Expand(t, i + 1, status, url)

\* C9: the Location of a redirect is the target with every {status}
\* replaced by the decimal captured code and every {url} by the
\* query-escaped reconstructed URL, all other text copied; a target without
\* placeholders is the Location.
LocationIsExpandedTarget ==
    pc = "Redirected"
    => /\ local.code = FirstCode
       /\ local.location =
              Expand(config.Target, 1, CodeText(FirstCode), QueryEscape(local.fullURL))
       /\ HeaderGet(rw.sent, StrLocation) = local.location
       /\ (~StrContains(config.Target, StrStatusPlaceholder)
           /\ ~StrContains(config.Target, StrURLPlaceholder))
          => local.location = config.Target
       /\ (config.Target = TargetBoth /\ req = RequestPlain /\ FirstCode = 401)
          => local.location = <<"/", "?", "s", "=", "4", "0", "1", "&", "u", "=", "h", "t", "t", "p", "%", "3", "A", "%", "2", "F", "%", "2", "F", "l", "o", "c", "a", "l", "h", "o", "s", "t">>

LocationIsExpandedTargetWitness ==
    /\ pc = "Redirected"
    /\ config.Target = TargetBraces
    /\ req = RequestPlain
    /\ FirstCode = 404
    /\ HeaderGet(rw.sent, StrLocation) = <<"{", "x", "}", "{", "4", "0", "4", "}", "{", "u", "r", "h", "t", "t", "p", "%", "3", "A", "%", "2", "F", "%", "2", "F", "l", "o", "c", "a", "l", "h", "o", "s", "t", "l", "}", "}", "{">>

\* the text of the URLs of the model and of their path and query
OwnURLText(u) ==
    CASE u = URLServer   -> <<"/", "a", "?", "x", "=", "1">>
      [] u = URLAbsolute -> <<"h", "t", "t", "p", ":", "/", "/", "l", "o", "c", "a", "l", "h", "o", "s", "t">>
      [] u = URLBraces   -> <<"h", "t", "t", "p", ":", "/", "/", "l", "o", "c", "a", "l", "h", "o", "s", "t", "/", "a", "p", "i", "?", "r", "=", "{", "u", "r", "l", "}">>

PathAndQueryText(u) ==
    CASE u = URLServer   -> <<"/", "a", "?", "x", "=", "1">>
      [] u = URLAbsolute -> <<"/">>
      [] u = URLBraces   -> <<"/", "a", "p", "i", "?", "r", "=", "{", "u", "r", "l", "}">>

ForwardedProto == HeaderGet(req.Header, StrXForwardedProto)

ForwardedHost == HeaderGet(req.Header, StrXForwardedHost)

BothForwarded == ForwardedProto # <<>> /\ ForwardedHost # <<>>

\* C10: the reconstructed URL is the forwarded protocol, "://", the
\* forwarded host and the request's path and query iff both forwarded
\* headers are present and non-empty; otherwise it is the request's own
\* URL and holds neither forwarded value.
ForwardedURLIffBoth ==
    pc = "Redirected"
    => /\ BothForwarded <=>
             (local.fullURL = ForwardedProto \o <<":", "/", "/">> \o ForwardedHost
                              \o PathAndQueryText(req.URL))
       /\ ~BothForwarded =>
             /\ local.fullURL = OwnURLText(req.URL)
             /\ ForwardedProto # <<>> => ~StrContains(local.fullURL, ForwardedProto)
             /\ ForwardedHost # <<>> => ~StrContains(local.fullURL, ForwardedHost)

ForwardedURLIffBothWitness ==
    /\ pc = "Redirected"
    /\ BothForwarded
    /\ req.URL = URLAbsolute
    /\ local.fullURL = <<"h", "t", "t", "p", "s", ":", "/", "/", "e", ".", "c", "o", "m", "/">>

\* the canonical form of the header names of the model
CanonicalName(k) ==
    CASE k = KeyXB      -> <<"X", "-", "B">>
      [] k = KeyXALower -> KeyXA
      [] k = KeyLocationLower -> StrLocation
      [] OTHER          -> k

\* the header names and the cookie names of the model each pattern matches
Matched(p) ==
    CASE p = PatternX        -> {KeyXA, <<"X", "-", "B">>}
      [] p = PatternXA       -> {KeyXA}
      [] p = PatternLocation -> {StrLocation}
      [] p = PatternAuth     -> {<<"a", "u", "t", "h", "_", "u">>}
      [] p = PatternSetCookie -> {StrSetCookie}
      [] p = PatternAny      -> {StrLocation, StrSetCookie, KeyXA, <<"X", "-", "B">>, <<"a", "u", "t", "h", "_", "u">>, <<"k", "e", "e", "p">>, <<"s", "i", "d">>}

SomePatternMatches(patterns, name) ==
    \E i \in 1..Len(patterns) : name \in Matched(patterns[i])

\* the values of a header, <<>> when it is absent
Values(h, name) == IF name \in DOMAIN h THEN h[name] ELSE <<>>

HasLocationKey(m) == \E k \in DOMAIN m : CanonicalName(k) = StrLocation

\* the Location of a redirect of code 401 to the target TargetStatus
Location401 == <<"/", "?", "s", "=", "4", "0", "1">>

\* C11 as stated: when outputAddHeaders has no Location key, the Location
\* the client receives is the composed target.
LocationAlwaysComposed ==
    (pc = "Redirected" /\ ~HasLocationKey(config.OutputAddHeaders)
        /\ config.Target = TargetStatus /\ FirstCode = 401)
    => Values(rw.sent, StrLocation) = <<Location401>>

\* C11, amended: when outputAddHeaders has no Location key and no removal
\* pattern matches "Location", the client receives exactly one Location,
\* the composed target, however many Location values the downstream
\* handler wrote; when a removal pattern matches "Location", the client
\* receives no Location at all.  No Location value of the downstream
\* handler reaches the client in either case.
LocationComposedUnlessRemoved ==
    (pc = "Redirected" /\ ~HasLocationKey(config.OutputAddHeaders)
        /\ config.Target = TargetStatus /\ FirstCode = 401)
    => /\ Values(rw.sent, StrLocation) =
              IF SomePatternMatches(config.OutputRemoveHeaders, StrLocation)
              THEN <<>> ELSE <<Location401>>
       /\ \A i \in 1..Len(Values(rw.sent, StrLocation)) :
              \A j \in 1..Len(Values(ref.header, StrLocation)) :
                  rw.sent[StrLocation][i] # ref.header[StrLocation][j]

LocationComposedUnlessRemovedWitness ==
    /\ pc = "Redirected"
    /\ ~HasLocationKey(config.OutputAddHeaders)
    /\ ~SomePatternMatches(config.OutputRemoveHeaders, StrLocation)
    /\ Len(Values(ref.header, StrLocation)) >= 2
    /\ Values(rw.sent, StrLocation) = <<Location401>>

\* no header-removal pattern of the configuration matches the header the
\* key names
Unremoved(k) == ~SomePatternMatches(config.OutputRemoveHeaders, CanonicalName(k))

\* the keys of the map that name the same header as k
SameHeader(m, k) == {k2 \in DOMAIN m : CanonicalName(k2) = CanonicalName(k)}

HeaderNames == {StrLocation, StrSetCookie, KeyXA, <<"X", "-", "B">>}

\* the headers before the removal step: those the downstream handler set,
\* Location, and those of outputAddHeaders
NamesBeforeRemoval ==
    DOMAIN ref.header \cup {StrLocation}
        \cup {CanonicalName(k) : k \in DOMAIN config.OutputAddHeaders}

PatternSet(patterns) == {patterns[i] : i \in 1..Len(patterns)}

\* pattern lists with repeated and reordered patterns
RemoveHeaderListsMore ==
    RemoveHeaderLists
        \cup {<<PatternX, PatternX>>, <<PatternX, PatternX, PatternXA>>,
              <<PatternXA, PatternX, PatternXA>>, <<PatternLocation, PatternLocation>>,
              <<PatternAuth, PatternAuth>>}

\* C14: the headers after the removal step depend only on the set of the
\* removal patterns: every list with the same patterns, repeated or in
\* another order, gives the same headers; a header that several patterns
\* match is removed as by any single one of them; and removing again
\* changes nothing.
RemovalDependsOnPatternSet ==
    pc = "Redirected"
    => /\ \A qs \in RemoveHeaderListsMore :
              PatternSet(qs) = PatternSet(config.OutputRemoveHeaders)
              => RemoveHeaders(local.steps.added, qs) = local.steps.removed
       /\ \A name \in DOMAIN local.steps.added :
              \A i \in 1..Len(config.OutputRemoveHeaders) :
                  name \in Matched(config.OutputRemoveHeaders[i])
                  => /\ name \notin DOMAIN local.steps.removed
                     /\ name \notin DOMAIN RemoveHeaders(local.steps.added,
                                                         <<config.OutputRemoveHeaders[i]>>)
       /\ RemoveHeaders(local.steps.removed, config.OutputRemoveHeaders)
              = local.steps.removed

RemovalDependsOnPatternSetWitness ==
    /\ pc = "Redirected"
    /\ config.OutputRemoveHeaders = <<PatternXA, PatternX>>
    /\ Len(Values(ref.header, KeyXA)) >= 1
    /\ {KeyXA, CanonicalName(KeyXB)} \subseteq DOMAIN local.steps.added
    /\ DOMAIN rw.sent = {StrLocation}

\* the cookie names of the model and the deletion directive of each
CookieNames == {<<"a", "u", "t", "h", "_", "u">>, <<"k", "e", "e", "p">>, <<"s", "i", "d">>}

DirectiveOf(name) ==
    CASE name = <<"a", "u", "t", "h", "_", "u">> -> <<"a", "u", "t", "h", "_", "u", "=", ";", " ", "P", "a", "t", "h", "=", "/", ";", " ", "M", "a", "x", "-", "A", "g", "e", "=", "0", ";", " ", "H", "t", "t", "p", "O", "n", "l", "y", ";", " ", "S", "e", "c", "u", "r", "e">>
      [] name = <<"s", "i", "d">> -> <<"s", "i", "d", "=", ";", " ", "P", "a", "t", "h", "=", "/", ";", " ", "M", "a", "x", "-", "A", "g", "e", "=", "0", ";", " ", "H", "t", "t", "p", "O", "n", "l", "y", ";", " ", "S", "e", "c", "u", "r", "e">>
      [] name = <<"k", "e", "e", "p">>   -> <<"k", "e", "e", "p", "=", ";", " ", "P", "a", "t", "h", "=", "/", ";", " ", "M", "a", "x", "-", "A", "g", "e", "=", "0", ";", " ", "H", "t", "t", "p", "O", "n", "l", "y", ";", " ", "S", "e", "c", "u", "r", "e">>

\* the names of the cookies the request carries
RequestCookieNames == {req.Cookies[i].Name : i \in 1..Len(req.Cookies)}

Count(seq, x) == Cardinality({i \in 1..Len(seq) : seq[i] = x})

\* the Set-Cookie values the cookie-removal step appended
Emitted ==
    SubSeq(Values(local.steps.final, StrSetCookie),
           Len(Values(local.steps.cookies, StrSetCookie)) + 1,
           Len(Values(local.steps.final, StrSetCookie)))

\* the request cookie names that some cookie-removal pattern matches
MatchedCookieNames ==
    {name \in CookieNames :
        /\ name \in RequestCookieNames
        /\ SomePatternMatches(config.OutputRemoveCookies, name)}

\* C15: the cookie-removal step appends exactly one deletion directive
\* "name=; Path=/; Max-Age=0; HttpOnly; Secure" for each distinct request
\* cookie name that at least one cookie-removal pattern matches, however
\* many patterns match it and however often the request carries it, none
\* for a name no pattern matches, and nothing else; the client receives
\* them.
OneDirectivePerMatchedName ==
    pc = "Redirected"
    => /\ RequestCookieNames \subseteq CookieNames
       /\ SubSeq(Values(local.steps.final, StrSetCookie), 1,
                 Len(Values(local.steps.cookies, StrSetCookie)))
              = Values(local.steps.cookies, StrSetCookie)
       /\ \A name \in CookieNames :
              Count(Emitted, DirectiveOf(name))
                  = IF name \in MatchedCookieNames THEN 1 ELSE 0
       /\ Len(Emitted) = Cardinality(MatchedCookieNames)
       /\ \A name \in CookieNames :
              Count(Values(rw.sent, StrSetCookie), DirectiveOf(name))
                  = IF name \in MatchedCookieNames THEN 1 ELSE 0

OneDirectivePerMatchedNameWitness ==
    /\ pc = "Redirected"
    /\ config.OutputRemoveCookies = <<PatternAny, PatternAuth, PatternAuth>>
    /\ Count([i \in 1..Len(req.Cookies) |-> req.Cookies[i].Name], <<"a", "u", "t", "h", "_", "u">>) = 2
    /\ Emitted = <<DirectiveOf(<<"a", "u", "t", "h", "_", "u">>), DirectiveOf(<<"k", "e", "e", "p">>)>>

\* the Set-Cookie values before the cookie-addition step when the
\* downstream handler set none and no header is removed: the one
\* outputAddHeaders sets
SetCookieBefore ==
    IF StrSetCookie \in DOMAIN config.OutputAddHeaders
    THEN <<config.OutputAddHeaders[StrSetCookie]>>
    ELSE <<>>

\* C16: the cookie-addition step appends the entries of outputAddCookies to
\* the Set-Cookie values, one value per entry, each the exact string, in
\* the order of the configuration, equal, empty and malformed entries
\* included; the client receives them in that order.
OneSetCookiePerEntry ==
    pc = "Redirected"
    => LET before == Values(local.steps.removed, StrSetCookie)
       IN  /\ Values(local.steps.cookies, StrSetCookie)
                  = before \o config.OutputAddCookies
           /\ SubSeq(Values(rw.sent, StrSetCookie), 1,
                     Len(before) + Len(config.OutputAddCookies))
                  = before \o config.OutputAddCookies
           /\ Len(Values(rw.sent, StrSetCookie))
                  = Len(before) + Len(config.OutputAddCookies)
                        + Cardinality(MatchedCookieNames)
           /\ (config.OutputRemoveHeaders = <<>> /\ StrSetCookie \notin DOMAIN ref.header)
              => before = SetCookieBefore

OneSetCookiePerEntryWitness ==
    /\ pc = "Redirected"
    /\ config.OutputAddCookies = <<CookieMalformed, CookieEmpty, CookieAdd>>
    /\ SetCookieBefore = <<ValueW>>
    /\ MatchedCookieNames # {}
    /\ SubSeq(rw.sent[StrSetCookie], 1, 4)
           = <<ValueW, CookieMalformed, CookieEmpty, CookieAdd>>

\* the status writes that took effect on a sink, in order
StatusWrites(w) == SelectSeq(w.log, LAMBDA e : e.kind = "status")

\* C17: the status the client sees of a redirected request is the
\* configured output status, whatever code was captured, also when the
\* output status lies in the configured status set; it is the only status
\* written to the sink.
RedirectStatusIsOutputStatus ==
    pc = "Redirected"
    => /\ InConfiguredRange(config.Status, FirstCode)
       /\ rw.status = config.OutputStatus
       /\ Len(StatusWrites(rw)) = 1
       /\ StatusWrites(rw)[1].code = config.OutputStatus

RedirectStatusIsOutputStatusWitness ==
    /\ pc = "Redirected"
    /\ InConfiguredRange(config.Status, config.OutputStatus)
    /\ FirstCode # config.OutputStatus
    /\ rw.status = 401
    /\ config.OutputStatus = 401

\* C18: a redirect by a handler whose configured output status is zero is
\* sent with the status 302.
ZeroOutputStatusSends302 ==
    (pc = "Redirected" /\ config.OutputStatus = 0) => rw.status = 302

\* C19: when the write of the redirect body fails, the status the sink
\* records for the request is 500.
FailedBodyWriteRecords500 ==
    (pc = "Redirected" /\ rw.broken /\ ValidStatusCode(config.OutputStatus))
    => rw.status = 500

Terminal == {"Redirected", "PassedThrough"}

\* C20: a request enters a terminal state only from Running, on the
\* return of the downstream handler: Redirected iff the capture ended
\* filtered, PassedThrough otherwise; on PassedThrough nothing further is
\* written to the sink, which holds what the downstream handler wrote; on
\* Redirected the sink, untouched until then, receives the one status and
\* the one body write of the redirect; and a request in a terminal state
\* leaves it no more and writes nothing more.
RequestStateMachine ==
    [][/\ (pc' \in Terminal /\ pc \notin Terminal)
          => /\ pc = "Running"
             /\ pc' = "Redirected" <=> isFilteredCode(catcher)
             /\ pc' = "PassedThrough"
                => (rw' = rw /\ ClientView(rw) = ClientView(ref))
             /\ pc' = "Redirected"
                => (rw.log = <<>> /\ Len(rw'.log) = 2 /\ BodyWrites(rw') = 1)
       /\ pc \in Terminal => (pc' = pc /\ rw' = rw)
       /\ pc' = "Running" => pc \in {"Idle", "Running"}]_vars

RequestStateMachineWitness ==
    /\ pc = "PassedThrough"
    /\ config.Status # <<>>
    /\ Len(statusCalls) >= 2
    /\ InConfiguredRange(config.Status, statusCalls[2].code)
    /\ BodyWrites(rw) >= 1

RECURSIVE Replay(_, _, _)
\* the catcher and the sink after the calls of a downstream handler, made
\* one after the other with nothing in between
Replay(cc, w, calls) ==
    IF calls = <<>> THEN [cc |-> cc, rw |-> w]
    ELSE Replay(ApplyCall(cc, w, Head(calls)).cc, ApplyCall(cc, w, Head(calls)).rw,
                Tail(calls))

\* the sink of a request that the handler New built serves alone, as far
\* as the request has come
ServedAlone(r) ==
    LET a    == New(config).handler[1]
        s    == Replay(newCodeCatcher(a.httpCodeRanges), NewSink(r.rw.broken), r.calls)
        ord  == CHOOSE o \in Orders(DOMAIN a.outputAddHeaders) : TRUE
    IN  IF r.pc = "Idle" THEN NewSink(r.rw.broken)
        ELSE IF r.pc = "Running" \/ ServeHTTPReturnsEarly(s.cc) THEN s.rw
        ELSE Redirect(a, s.cc, s.rw, r.req, ord)

FilteredStatusDeferred ==
    (Started /\ statusCalls # <<>> /\ InConfiguredRange(config.Status, FirstCode))
    => /\ pc = "Running"
          => (rw.log = <<>> /\ ~rw.wroteHeader /\ rw.body = <<>>)
       /\ pc = "Redirected"
          => /\ rw.log # <<>>
             /\ rw.log[1].kind = "status"
             /\ rw.log[1].code = config.OutputStatus
             /\ \A i \in 1..Len(rw.log) :
                    rw.log[i].kind = "status" => rw.log[i].code = config.OutputStatus
             /\ rw.sent = local.steps.final
             /\ Values(rw.sent, StrSetCookie)
                    = config.OutputAddCookies
                          \o Emitted
       /\ pc # "PassedThrough"

FilteredStatusDeferredWitness ==
    /\ pc = "Redirected"
    /\ FirstCode = 404
    /\ config.OutputStatus = 302
    /\ BodyWrites(ref) >= 1
    /\ Len(StatusWrites(ref)) = 1
    /\ Len(Values(rw.sent, StrSetCookie)) = 4
    /\ CanonicalName(KeyXB) \notin DOMAIN rw.sent


\* C23: the result of the add-headers step is the same for every order in
\* which the keys of outputAddHeaders are visited, maps with two keys that
\* differ only in letter case included, so the response headers are
\* determined by the configuration and the request alone.
AddHeadersOrderIrrelevant ==
    pc = "Redirected"
    => \A ord \in Orders(DOMAIN config.OutputAddHeaders) :
          /\ AddCustomHeaders(local.steps.located, config.OutputAddHeaders, ord)
                = local.steps.added
          /\ RedirectHeaders(handler[1], catcher, NewSink(FALSE), req, ord) = rw.sent

\* the positions of the request cookies that get a deletion directive: the
\* first cookie of each name that some cookie-removal pattern matches
FirstMatched ==
    {i \in 1..Len(req.Cookies) :
        /\ SomePatternMatches(config.OutputRemoveCookies, req.Cookies[i].Name)
        /\ \A j \in 1..(i - 1) : req.Cookies[j].Name # req.Cookies[i].Name}

RECURSIVE DirectivesFrom(_)
\* the deletion directives of the request cookies from position i on, in
\* the order of the request
DirectivesFrom(i) ==
    IF i > Len(req.Cookies) THEN <<>>
    ELSE (IF i \in FirstMatched THEN <<DirectiveOf(req.Cookies[i].Name)>> ELSE <<>>)
            \o DirectivesFrom(i + 1)

\* C24: the headers are removed before the cookies are added: when a
\* header-removal pattern matches "Set-Cookie", the Set-Cookie values the
\* downstream handler set and the one outputAddHeaders set are deleted, and
\* the client receives every entry of outputAddCookies and every deletion
\* directive, and no other Set-Cookie value.
SetCookieRemovalSparesAddedCookies ==
    (pc = "Redirected" /\ SomePatternMatches(config.OutputRemoveHeaders, StrSetCookie))
    => /\ StrSetCookie \notin DOMAIN local.steps.removed
       /\ Values(rw.sent, StrSetCookie) = config.OutputAddCookies \o DirectivesFrom(1)
       /\ \A i \in 1..Len(Values(rw.sent, StrSetCookie)) :
             /\ rw.sent[StrSetCookie][i] # CookieDown
             /\ rw.sent[StrSetCookie][i] # ValueW

SetCookieRemovalSparesAddedCookiesWitness ==
    /\ pc = "Redirected"
    /\ config.OutputRemoveHeaders = <<PatternSetCookie>>
    /\ Values(ref.header, StrSetCookie) = <<CookieDown, CookieDown>>
    /\ StrSetCookie \in DOMAIN config.OutputAddHeaders
    /\ StrSetCookie \in DOMAIN local.steps.added
    /\ req = RequestSid
    /\ config.OutputRemoveCookies = <<PatternAny>>
    /\ Len(Values(rw.sent, StrSetCookie)) = 4

\* the deletion directives of the cookie names of the model
Directives == {DirectiveOf(name) : name \in CookieNames}

\* C25: in the Set-Cookie values the client receives, the entries of
\* outputAddCookies, in the order of the configuration, come before the
\* deletion directives, in the order of the request cookies; when a cookie
\* of outputAddCookies and a matched request cookie have the same name, the
\* deletion directive is the later value.
AddedCookiesBeforeDirectives ==
    pc = "Redirected"
    => LET sc == Values(rw.sent, StrSetCookie)
           before == Values(local.steps.removed, StrSetCookie)
       IN  /\ sc = before \o config.OutputAddCookies \o DirectivesFrom(1)
           /\ \A i, j \in 1..Len(sc) :
                 (/\ \E k \in 1..Len(config.OutputAddCookies) :
                         sc[i] = config.OutputAddCookies[k]
                  /\ sc[j] \in Directives)
                 => i < j
           /\ (req = RequestSid /\ config.OutputRemoveCookies # <<>>)
              => \E i, j \in 1..Len(sc) :
                    /\ sc[i] = CookieAdd
                    /\ sc[j] = DirectiveOf(<<"s", "i", "d">>)
                    /\ i < j
                    /\ j < Len(sc)

AddedCookiesBeforeDirectivesWitness ==
    /\ pc = "Redirected"
    /\ req = RequestSid
    /\ config.OutputRemoveCookies = <<PatternAny>>
    /\ config.OutputRemoveHeaders = <<>>
    /\ Values(rw.sent, StrSetCookie)
          = <<CookieDown, CookieAdd, CookieB, DirectiveOf(<<"s", "i", "d">>),
              DirectiveOf(<<"a", "u", "t", "h", "_", "u">>)>>

\* the keys of outputAddHeaders name the header
IsAddedHeader(name) ==
    \E k \in DOMAIN config.OutputAddHeaders : CanonicalName(k) = name

\* the values seq holds at its head
StartsWith(seq, head) ==
    /\ Len(seq) >= Len(head)
    /\ SubSeq(seq, 1, Len(head)) = head

\* C26: every header the downstream handler set reaches the client with
\* each of its values, in the order they were set, unless its name is
\* Location, outputAddHeaders has a key for it, or a header-removal pattern
\* matches it; only Set-Cookie gets further values, after those.
DownstreamHeadersKept ==
    pc = "Redirected"
    => \A name \in DOMAIN ref.header :
          (/\ name # StrLocation
           /\ ~IsAddedHeader(name)
           /\ ~SomePatternMatches(config.OutputRemoveHeaders, name))
          => /\ name \in DOMAIN rw.sent
             /\ StartsWith(rw.sent[name], ref.header[name])
             /\ name # StrSetCookie => rw.sent[name] = ref.header[name]

DownstreamHeadersKeptWitness ==
    /\ pc = "Redirected"
    /\ Values(ref.header, KeyXA) = <<ValueV, ValueU>>
    /\ Values(rw.sent, KeyXA) = <<ValueV, ValueU>>
    /\ config.OutputAddHeaders = (StrSetCookie :> ValueW)
    /\ config.OutputRemoveHeaders = <<PatternSetCookie>>
    /\ req = RequestSid
    /\ config.OutputRemoveCookies = <<PatternAny>>

\* C27: the cookie-removal step looks at the cookies of the request only.
\* It leaves the Set-Cookie values that are there, those of the downstream
\* handler included, and appends deletion directives for request cookies
\* only: a downstream Set-Cookie of a name a cookie-removal pattern matches
\* gets a deletion directive iff the request carries a cookie of that name.
DownstreamCookieNotRemoved ==
    pc = "Redirected"
    => LET before == Values(local.steps.cookies, StrSetCookie)
           sc == Values(rw.sent, StrSetCookie)
           auth == <<"a", "u", "t", "h", "_", "u">>
       IN  /\ sc = before \o DirectivesFrom(1)
           /\ StrSetCookie \in DOMAIN local.steps.removed
              => StartsWith(sc, local.steps.removed[StrSetCookie])
           /\ (/\ Count(Values(ref.header, StrSetCookie), CookieDown) > 0
               /\ SomePatternMatches(config.OutputRemoveCookies, auth))
              => /\ Count(sc, DirectiveOf(auth)) > 0 <=> auth \in RequestCookieNames
                 /\ (/\ ~IsAddedHeader(StrSetCookie)
                     /\ ~SomePatternMatches(config.OutputRemoveHeaders, StrSetCookie))
                    => StartsWith(sc, ref.header[StrSetCookie])

DownstreamCookieNotRemovedWitness ==
    /\ pc = "Redirected"
    /\ req = RequestPlain
    /\ config.OutputRemoveCookies = <<PatternAny>>
    /\ config.OutputRemoveHeaders = <<>>
    /\ Values(ref.header, StrSetCookie) = <<CookieDown>>
    /\ Values(rw.sent, StrSetCookie) = <<CookieDown, CookieAdd, CookieB>>

\* C28: every range of the set New built has low <= high, and New fails
\* with the status error, without a handler, on a status list that holds an
\* entry "N-M" with N > M: no set with a range low > high is ever built.
RangesOrdered ==
    /\ handler # <<>>
       => \A i \in 1..Len(handler[1].httpCodeRanges) :
             handler[1].httpCodeRanges[i][1] <= handler[1].httpCodeRanges[i][2]
    /\ (pc # "Config" /\ \E i \in 1..Len(config.Status) : config.Status[i] = EntryReversed)
       => /\ handler = <<>>
          /\ pc = "Failed"

RangesOrderedWitness ==
    /\ pc = "Failed"
    /\ config.Status = <<EntryReversed, Entry404>>
    /\ config.Target # <<>>
    /\ handler = <<>>
    /\ err = ErrStatus

\* the keys of outputAddHeaders that name the header Location
LocationKeys == {k \in DOMAIN config.OutputAddHeaders : CanonicalName(k) = StrLocation}

\* C29 as stated: when outputAddHeaders has a key that canonicalizes to
\* Location, the Location of the redirect response is the value configured
\* for that key and not the composed target.
LocationIsConfiguredValue ==
    pc = "Redirected"
    => \A k \in LocationKeys :
          Values(rw.sent, StrLocation) = <<config.OutputAddHeaders[k]>>

\* C29, amended: when outputAddHeaders has a key that canonicalizes to
\* Location and no header-removal pattern matches "Location", the redirect
\* response has exactly one Location, a value configured for such a key
\* (the configured value when there is one such key) and not the composed
\* target, whatever Location the downstream handler set; when a pattern
\* matches "Location" the response has no Location.
ConfiguredLocationUnlessRemoved ==
    (pc = "Redirected" /\ LocationKeys # {})
    => IF SomePatternMatches(config.OutputRemoveHeaders, StrLocation)
       THEN StrLocation \notin DOMAIN rw.sent
       ELSE /\ \E k \in LocationKeys :
                  Values(rw.sent, StrLocation) = <<config.OutputAddHeaders[k]>>
            /\ Values(rw.sent, StrLocation) # <<Location401>>
            /\ Values(local.steps.located, StrLocation) = <<Location401>>

ConfiguredLocationUnlessRemovedWitness ==
    /\ pc = "Redirected"
    /\ config.OutputAddHeaders = (KeyLocationLower :> ValueW)
    /\ config.OutputRemoveHeaders = <<PatternXA>>
    /\ Values(ref.header, StrLocation) = <<ValueV>>
    /\ Values(local.steps.located, StrLocation) = <<Location401>>
    /\ Values(rw.sent, StrLocation) = <<ValueW>>

\* C30: the header-removal step exempts no header: when a header-removal
\* pattern matches "Location", the Location that was there before the step,
\* the composed target or the value of outputAddHeaders, is deleted, and the
\* client receives the redirect with the output status and the body
\* "Redirecting" but without a Location header.
RedirectWithoutLocation ==
    (pc = "Redirected" /\ SomePatternMatches(config.OutputRemoveHeaders, StrLocation))
    => /\ StrLocation \in DOMAIN local.steps.added
       /\ StrLocation \notin DOMAIN local.steps.removed
       /\ StrLocation \notin DOMAIN rw.sent
       /\ rw.log # <<>>
       /\ rw.log[1].kind = "status"
       /\ rw.log[1].code = config.OutputStatus
       /\ rw.body # <<>>

RedirectWithoutLocationWitness ==
    /\ pc = "Redirected"
    /\ config.OutputRemoveHeaders = <<PatternLocation>>
    /\ config.OutputAddHeaders = (KeyLocationLower :> ValueW)
    /\ Values(ref.header, StrLocation) = <<ValueV>>
    /\ Values(local.steps.added, StrLocation) = <<ValueW>>
    /\ StrLocation \notin DOMAIN rw.sent
    /\ rw.log[1].code = 302

\* the reconstructed URL of the requests of SpecExpand and its query-escaped
\* form
FullURLText(r) ==
    CASE r = RequestPlain  -> <<"h", "t", "t", "p", ":", "/", "/", "l", "o", "c", "a", "l", "h", "o", "s", "t">>
      [] r = RequestBraces -> <<"h", "t", "t", "p", "s", ":", "/", "/", "e", ".", "c", "o", "m", "/", "a", "p", "i", "?", "r", "=", "{", "u", "r", "l", "}">>
      [] r = RequestStatus -> <<"/", "p", "?", "s", "=", "{", "s", "t", "a", "t", "u", "s", "}">>

EscapedURLText(r) ==
    CASE r = RequestPlain  -> <<"h", "t", "t", "p", "%", "3", "A", "%", "2", "F", "%", "2", "F", "l", "o", "c", "a", "l", "h", "o", "s", "t">>
      [] r = RequestBraces -> <<"h", "t", "t", "p", "s", "%", "3", "A", "%", "2", "F", "%", "2", "F", "e", ".", "c", "o", "m", "%", "2", "F", "a", "p", "i", "%", "3", "F", "r", "%", "3", "D", "%", "7", "B", "u", "r", "l", "%", "7", "D">>
      [] r = RequestStatus -> <<"%", "2", "F", "p", "%", "3", "F", "s", "%", "3", "D", "%", "7", "B", "s", "t", "a", "t", "u", "s", "%", "7", "D">>

\* the escaped form of the text of each placeholder
EscapedPlaceholder(p) ==
    CASE p = StrStatusPlaceholder -> <<"%", "7", "B", "s", "t", "a", "t", "u", "s", "%", "7", "D">>
      [] p = StrURLPlaceholder    -> <<"%", "7", "B", "u", "r", "l", "%", "7", "D">>

\* the number of places of s where sub starts
Occurrences(s, sub) == Cardinality({i \in 1..Len(s) : HasPrefixAt(s, i, sub)})

\* C31: text substituted into the template is not expanded again.  The
\* Location holds the decimal code once for each {status} of the target and
\* the escaped reconstructed URL once for each {url} of the target, and no
\* placeholder; the text of a placeholder in the reconstructed URL is in the
\* Location in its escaped form only, once for each of its occurrences in
\* the URL and each {url} of the target.
SubstitutedTextNotExpanded ==
    pc = "Redirected"
    => LET loc == HeaderGet(rw.sent, StrLocation)
           statusCount == Occurrences(config.Target, StrStatusPlaceholder)
           urlCount == Occurrences(config.Target, StrURLPlaceholder)
       IN  /\ local.fullURL = FullURLText(req)
           /\ Occurrences(loc, CodeText(FirstCode)) = statusCount
           /\ Occurrences(loc, EscapedURLText(req)) = urlCount
           /\ \A p \in {StrStatusPlaceholder, StrURLPlaceholder} :
                 /\ Occurrences(loc, p) = 0
                 /\ Occurrences(loc, EscapedPlaceholder(p))
                       = urlCount * Occurrences(FullURLText(req), p)
           /\ Len(loc) = Len(config.Target)
                 + statusCount * (Len(CodeText(FirstCode)) - Len(StrStatusPlaceholder))
                 + urlCount * (Len(EscapedURLText(req)) - Len(StrURLPlaceholder))

SubstitutedTextNotExpandedWitness ==
    /\ pc = "Redirected"
    /\ config.Target = TargetTwice
    /\ req = RequestStatus
    /\ FirstCode = 404
    /\ HeaderGet(rw.sent, StrLocation)
          = <<"%", "2", "F", "p", "%", "3", "F", "s", "%", "3", "D", "%", "7", "B", "s", "t", "a", "t", "u", "s", "%", "7", "D", "4", "0", "4", "%", "2", "F", "p", "%", "3", "F", "s", "%", "3", "D", "%", "7", "B", "s", "t", "a", "t", "u", "s", "%", "7", "D", "4", "0", "4">>
====
